---- MODULE Spec2Model ----
(***************************************************************************)
(* Model of the evidence pipeline of incident-responder: the risk scoring  *)
(* of commits (tools/git_search_tool.py), the log parser and error         *)
(* aggregation (utils/log_utils.py) and the local log adapter              *)
(* (sources/local.py).                                                     *)
(*                                                                         *)
(* A Python str is modelled as a sequence of one-character strings, so     *)
(* that str.lower(), the `in` operator and the regular expressions are     *)
(* computed character by character.                                        *)
(***************************************************************************)
EXTENDS Integers, Sequences, FiniteSets, TLC

VARIABLES
    \* GitSearchTool._assess_risk(files, message)
    files, message, risk_pc, risk_i, risk_level, risk_prev,
    \* extract_errors_from_logs(log_content)
    log_content, lines, ex_pc, ex_i, errors, error_counts, first_error_time,
    affected_services, ex_result,
    \* categorize_error(cat_message)
    cat_message, cat_pc, cat_result,
    \* LocalLogAdapter.get_logs(service, since, until, level)
    local_service, local_file, local_since, local_until, local_level, local_pc,
    local_i, since_utc, until_utc, local_entries, local_yielded, local_opened

local_vars ==
    <<local_service, local_file, local_since, local_until, local_level, local_pc,
      local_i, since_utc, until_utc, local_entries, local_yielded, local_opened>>

categorize_vars == <<cat_message, cat_pc, cat_result>>

extract_vars ==
    <<log_content, lines, ex_pc, ex_i, errors, error_counts, first_error_time,
      affected_services, ex_result>>

risk_vars == <<files, message, risk_pc, risk_i, risk_level, risk_prev>>

\* SourceFactory: the method called and its arguments, where the call is, what
\* it returned or raised, and the adapters constructed so far
VARIABLES fac_method, fac_source_type, fac_kwargs, fac_pc, fac_result, fac_error,
          fac_constructed

factory_vars ==
    <<fac_method, fac_source_type, fac_kwargs, fac_pc, fac_result, fac_error,
      fac_constructed>>

\* GitHubActionsAdapter: the method called and its arguments, what the API
\* serves, the position of the call or generator, the URLs requested so far,
\* the current URL, page or jobs and the indexes into them, what was yielded,
\* returned or raised, and the number of items the consumer has asked for
VARIABLES gha_method, gha_repo, gha_run_id, gha_run_url, gha_until, gha_server,
          gha_pc, gha_requests, gha_url, gha_data, gha_j, gha_s, gha_yielded,
          gha_result, gha_error, gha_demand

gha_vars ==
    <<gha_method, gha_repo, gha_run_id, gha_run_url, gha_until, gha_server,
      gha_pc, gha_requests, gha_url, gha_data, gha_j, gha_s, gha_yielded,
      gha_result, gha_error, gha_demand>>

\* LocalGitAdapter: the adapter's repo_path, the arguments of get_commits,
\* the repository on disk, which of two calls is running and where, the
\* subprocesses started by the call, the lines of the log output and the
\* index into them, what the call yielded and raised, and the outcome of the
\* first call once the second has begun
VARIABLES git_repo_path, git_args, git_repo, git_call, git_pc, git_cmds,
          git_lines, git_k, git_yielded, git_error, git_first

git_vars ==
    <<git_repo_path, git_args, git_repo, git_call, git_pc, git_cmds,
      git_lines, git_k, git_yielded, git_error, git_first>>

\* The tools: which tool runs and its arguments (git_repo_path, timestamp,
\* max_commits; service_name), the repository and the log file it finds,
\* where the call is, the subprocesses it started, the lines of the log
\* output, the index into them and the commits gathered, the text returned
\* and the exception that left _run, if any
VARIABLES tool_name, tool_repo_path, tool_timestamp, tool_max_commits,
          tool_service, tool_repo, tool_file, tool_pc, tool_cmds, tool_lines,
          tool_i, tool_commits, tool_result, tool_error

tool_vars ==
    <<tool_name, tool_repo_path, tool_timestamp, tool_max_commits, tool_service,
      tool_repo, tool_file, tool_pc, tool_cmds, tool_lines, tool_i, tool_commits,
      tool_result, tool_error>>

\* The API: the registry `investigations`, the request and the response of
\* each call of trigger_investigation, where the background task of each
\* investigation is, how its crew ended, and the answer of the step just
\* taken when that step is a call of get_investigation
VARIABLES investigations, api_request, api_response, api_pc, api_crew, api_reply

api_vars ==
    <<investigations, api_request, api_response, api_pc, api_crew, api_reply>>

\* The report generator: the files of the reports directory, the points of
\* the vector store, the arguments of the call of _run that is running, where
\* the call is, its full_content, its embedding, the text it returned, the
\* statement that raised, and the saves that wrote a file so far
VARIABLES report_files, report_points, report_args, report_pc, report_full,
          report_embedding, report_result, report_raised, report_saves

report_vars ==
    <<report_files, report_points, report_args, report_pc, report_full,
      report_embedding, report_result, report_raised, report_saves>>

\* the state outside each component, which a step of the component leaves alone
outside_risk ==
    <<extract_vars, categorize_vars, local_vars, factory_vars, gha_vars,
      git_vars, tool_vars, report_vars, api_vars>>
outside_extract ==
    <<risk_vars, categorize_vars, local_vars, factory_vars, gha_vars,
      git_vars, tool_vars, report_vars, api_vars>>
outside_categorize ==
    <<risk_vars, extract_vars, local_vars, factory_vars, gha_vars, git_vars,
      tool_vars, report_vars, api_vars>>
outside_local ==
    <<risk_vars, extract_vars, categorize_vars, factory_vars, gha_vars,
      git_vars, tool_vars, report_vars, api_vars>>
outside_factory ==
    <<risk_vars, extract_vars, categorize_vars, local_vars, gha_vars,
      git_vars, tool_vars, report_vars, api_vars>>
outside_gha ==
    <<risk_vars, extract_vars, categorize_vars, local_vars, factory_vars,
      git_vars, tool_vars, report_vars, api_vars>>
outside_git ==
    <<risk_vars, extract_vars, categorize_vars, local_vars, factory_vars,
      gha_vars, tool_vars, report_vars, api_vars>>
outside_tool ==
    <<risk_vars, extract_vars, categorize_vars, local_vars, factory_vars,
      gha_vars, git_vars, report_vars, api_vars>>
outside_report ==
    <<risk_vars, extract_vars, categorize_vars, local_vars, factory_vars,
      gha_vars, git_vars, tool_vars, api_vars>>
outside_api ==
    <<risk_vars, extract_vars, categorize_vars, local_vars, factory_vars,
      gha_vars, git_vars, tool_vars, report_vars>>
\* the state outside LogParserTool._run and the analysis it calls
outside_tool_extract ==
    <<risk_vars, categorize_vars, local_vars, factory_vars, gha_vars,
      git_vars, report_vars, api_vars>>

----------------------------------------------------------------------------
(* str helpers                                                             *)

UpperSeq == <<"A","B","C","D","E","F","G","H","I","J","K","L","M","N","O","P","Q","R","S","T","U","V","W","X","Y","Z">>
LowerSeq == <<"a","b","c","d","e","f","g","h","i","j","k","l","m","n","o","p","q","r","s","t","u","v","w","x","y","z">>
DigitSeq == <<"0","1","2","3","4","5","6","7","8","9">>

UpperSet == {UpperSeq[i] : i \in 1..Len(UpperSeq)}
LowerSet == {LowerSeq[i] : i \in 1..Len(LowerSeq)}
DigitSet == {DigitSeq[i] : i \in 1..Len(DigitSeq)}

LowerCharOf == [c \in UpperSet |-> LowerSeq[CHOOSE i \in 1..Len(UpperSeq) : UpperSeq[i] = c]]
UpperCharOf == [c \in LowerSet |-> UpperSeq[CHOOSE i \in 1..Len(LowerSeq) : LowerSeq[i] = c]]

\* str.lower() and str.upper() on ASCII text
lower(s) == [i \in 1..Len(s) |-> IF s[i] \in UpperSet THEN LowerCharOf[s[i]] ELSE s[i]]
upper(s) == [i \in 1..Len(s) |-> IF s[i] \in LowerSet THEN UpperCharOf[s[i]] ELSE s[i]]

\* p occurs in s at position i
StartsAt(s, p, i) ==
    /\ i >= 1
    /\ i + Len(p) - 1 <= Len(s)
    /\ \A k \in 1..Len(p) : s[i + k - 1] = p[k]

\* Python's `p in s`
Contains(s, p) == \E i \in 1..(Len(s) - Len(p) + 1) : StartsAt(s, p, i)

\* Python's any(p in s for p in patterns)
ContainsAny(s, patterns) == \E j \in 1..Len(patterns) : Contains(s, patterns[j])

\* every sequence over S of length at most n
SeqsUpTo(S, n) == UNION {[1..k -> S] : k \in 0..n}

----------------------------------------------------------------------------
(* constants.py                                                            *)

RISK_LEVEL_HIGH == "HIGH"
RISK_LEVEL_MEDIUM == "MEDIUM"
RISK_LEVEL_LOW == "LOW"

HIGH_RISK_PATTERNS ==
    << <<"m","i","g","r","a","t","i","o","n">>, <<"d","a","t","a","b","a","s","e">>, <<"s","c","h","e","m","a">>, <<".","s","q","l">>, <<"c","o","n","f","i","g",".","y","a","m","l">>,
       <<"c","o","n","f","i","g",".","j","s","o","n">>, <<"s","e","t","t","i","n","g","s">>, <<"r","e","q","u","i","r","e","m","e","n","t","s",".","t","x","t">>, <<"p","a","c","k","a","g","e",".","j","s","o","n">>,
       <<"d","e","p","e","n","d","e","n","c","i","e","s">> >>

MEDIUM_RISK_PATTERNS ==
    << <<"a","p","i">>, <<"e","n","d","p","o","i","n","t">>, <<"r","o","u","t","e">>, <<"h","a","n","d","l","e","r">>, <<"s","e","r","v","i","c","e",".","p","y">>,
       <<"c","o","n","t","r","o","l","l","e","r">>, <<"m","i","d","d","l","e","w","a","r","e">> >>

HIGH_RISK_KEYWORDS == << <<"c","r","i","t","i","c","a","l">>, <<"h","o","t","f","i","x">>, <<"u","r","g","e","n","t">>, <<"b","r","e","a","k","i","n","g">> >>

----------------------------------------------------------------------------
(* GitSearchTool._assess_risk                                              *)

\* None, the value of a variable that holds no result
None == "None"

\* the changed files and commit messages the calls are made with
MaxFiles == 2

FileNames ==
    { <<"R","E","A","D","M","E",".","m","d">>, <<"a","p","i","/","r","o","u","t","e","s",".","p","y">>, <<"D","B","/","M","i","g","r","a","t","i","o","n",".","S","Q","L">>,
      <<"s","r","c","/","H","a","n","d","l","e","r",".","p","y">>, <<"c","o","n","f","i","g",".","y","a","m","l">>, <<"d","o","c","s","/","u","r","g","e","n","t","-","h","o","t","f","i","x",".","t","x","t">> }

CommitMessages ==
    { <<"m","i","n","o","r"," ","t","w","e","a","k">>, <<"C","R","I","T","I","C","A","L"," ","h","o","t","f","i","x">>, <<"H","o","t","f","i","x"," ","f","o","r"," ","u","r","g","e","n","t"," ","b","u","g">>,
      <<"u","p","d","a","t","e"," ","d","a","t","a","b","a","s","e"," ","s","c","h","e","m","a">>, <<"B","R","E","A","K","I","N","G"," ","C","H","A","N","G","E",":"," ","U","p","d","a","t","e"," ","A","P","I">>, <<>> }

RiskIdle ==
    /\ files = <<>>
    /\ message = <<>>
    /\ risk_pc = "idle"
    /\ risk_i = 0
    /\ risk_level = None
    /\ risk_prev = None

\* a call _assess_risk(files, message) is entered
RiskInit ==
    /\ files \in SeqsUpTo(FileNames, MaxFiles)
    /\ message \in CommitMessages
    /\ risk_pc = "high_files"
    /\ risk_i = 1
    /\ risk_level = None
    /\ risk_prev = None

\* a bug: one pass over the files that tests each file for a high-risk and
\* then for a medium-risk pattern
AssessRiskHighFiles_SinglePass ==
    /\ risk_pc = "high_files"
    /\ IF risk_i > Len(files)
       THEN /\ risk_pc' = "message"
            /\ risk_i' = 1
            /\ UNCHANGED risk_level
       ELSE IF ContainsAny(lower(files[risk_i]), HIGH_RISK_PATTERNS)
       THEN /\ risk_level' = RISK_LEVEL_HIGH
            /\ risk_pc' = "done"
            /\ UNCHANGED risk_i
       ELSE IF ContainsAny(lower(files[risk_i]), MEDIUM_RISK_PATTERNS)
       THEN /\ risk_level' = RISK_LEVEL_MEDIUM
            /\ risk_pc' = "done"
            /\ UNCHANGED risk_i
       ELSE /\ risk_i' = risk_i + 1
            /\ UNCHANGED <<risk_pc, risk_level>>
    /\ UNCHANGED <<files, message, risk_prev>>
    /\ UNCHANGED outside_risk

\* one iteration of the first loop: return HIGH on a high-risk file
AssessRiskHighFiles ==
    /\ risk_pc = "high_files"
    /\ IF risk_i > Len(files)
       THEN /\ risk_pc' = "medium_files"
            /\ risk_i' = 1
            /\ UNCHANGED risk_level
       ELSE IF ContainsAny(lower(files[risk_i]), HIGH_RISK_PATTERNS)
       THEN /\ risk_level' = RISK_LEVEL_HIGH
            /\ risk_pc' = "done"
            /\ UNCHANGED risk_i
       ELSE /\ risk_i' = risk_i + 1
            /\ UNCHANGED <<risk_pc, risk_level>>
    /\ UNCHANGED <<files, message, risk_prev>>
    /\ UNCHANGED outside_risk

\* one iteration of the second loop: return MEDIUM on a medium-risk file
AssessRiskMediumFiles ==
    /\ risk_pc = "medium_files"
    /\ IF risk_i > Len(files)
       THEN /\ risk_pc' = "message"
            /\ UNCHANGED <<risk_i, risk_level>>
       ELSE IF ContainsAny(lower(files[risk_i]), MEDIUM_RISK_PATTERNS)
       THEN /\ risk_level' = RISK_LEVEL_MEDIUM
            /\ risk_pc' = "done"
            /\ UNCHANGED risk_i
       ELSE /\ risk_i' = risk_i + 1
            /\ UNCHANGED <<risk_pc, risk_level>>
    /\ UNCHANGED <<files, message, risk_prev>>
    /\ UNCHANGED outside_risk

\* the check of the commit message, and the final return LOW
AssessRiskMessage ==
    /\ risk_pc = "message"
    /\ risk_level' = IF ContainsAny(lower(message), HIGH_RISK_KEYWORDS)
                     THEN RISK_LEVEL_HIGH
                     ELSE RISK_LEVEL_LOW
    /\ risk_pc' = "done"
    /\ UNCHANGED <<files, message, risk_i, risk_prev>>
    /\ UNCHANGED outside_risk

\* the caller keeps the level returned and calls again with the same inputs
AssessRiskAgain ==
    /\ risk_pc = "done"
    /\ risk_prev = None
    /\ risk_prev' = risk_level
    /\ risk_level' = None
    /\ risk_pc' = "high_files"
    /\ risk_i' = 1
    /\ UNCHANGED <<files, message>>
    /\ UNCHANGED outside_risk

RiskNext ==
    \/ AssessRiskHighFiles
    \/ AssessRiskMediumFiles
    \/ AssessRiskMessage
    \/ AssessRiskAgain

----------------------------------------------------------------------------
(* Regular-expression helpers (Python re on ASCII text)                    *)

\* \s
SpaceSet == {" ", "\t", "\n", "\r", "\f"}

\* \w
WordSet == UpperSet \cup LowerSet \cup DigitSet \cup {"_"}

\* an optional value: <<>> is None, <<v>> is the value v
NoneOpt == <<>>
Some(v) == <<v>>

CharAt(s, i, c) == i >= 1 /\ i <= Len(s) /\ s[i] = c

ClassAt(s, i, S) == i >= 1 /\ i <= Len(s) /\ s[i] \in S

\* \d{n} at position i
DigitsAt(s, i, n) == \A k \in 0..(n - 1) : ClassAt(s, i + k, DigitSet)

\* the position after the longest run of characters of S that starts at i
SpanEnd(s, i, S) ==
    CHOOSE j \in i..(Len(s) + 1) :
        /\ \A k \in i..(j - 1) : s[k] \in S
        /\ j = Len(s) + 1 \/ s[j] \notin S

\* the position after the longest run of characters other than c from i
SpanUntil(s, i, c) ==
    CHOOSE j \in i..(Len(s) + 1) :
        /\ \A k \in i..(j - 1) : s[k] # c
        /\ j = Len(s) + 1 \/ s[j] = c

\* a.*b: a, then b later with no line break between them ("." excludes \n)
MatchesGap(s, a, b) ==
    \E i \in 1..Len(s) :
        /\ StartsAt(s, a, i)
        /\ \E j \in (i + Len(a))..Len(s) :
              /\ StartsAt(s, b, j)
              /\ \A k \in (i + Len(a))..(j - 1) : s[k] # "\n"

\* a.*[first]\d{n}: a, then later one character of first and n digits
MatchesGapDigits(s, a, first, n) ==
    \E i \in 1..Len(s) :
        /\ StartsAt(s, a, i)
        /\ \E j \in (i + Len(a))..Len(s) :
              /\ ClassAt(s, j, first)
              /\ DigitsAt(s, j + 1, n)
              /\ \A k \in (i + Len(a))..(j - 1) : s[k] # "\n"

\* ^ under re.MULTILINE
LineStart(s, p) == p = 1 \/ (p >= 2 /\ p <= Len(s) + 1 /\ s[p - 1] = "\n")

\* ^\s+word\s+ followed by the text after (under re.MULTILINE)
MatchesIndented(s, word, after) ==
    \E p \in 1..Len(s) :
        /\ LineStart(s, p)
        /\ ClassAt(s, p, SpaceSet)
        /\ LET w == SpanEnd(s, p, SpaceSet)
           IN  /\ StartsAt(s, word, w)
               /\ ClassAt(s, w + Len(word), SpaceSet)
               /\ StartsAt(s, after, SpanEnd(s, w + Len(word), SpaceSet))

----------------------------------------------------------------------------
(* constants.py: log parsing                                               *)

LOG_LEVEL_DEBUG == <<"D","E","B","U","G">>
LOG_LEVEL_INFO == <<"I","N","F","O">>
LOG_LEVEL_WARN == <<"W","A","R","N">>
LOG_LEVEL_WARNING == <<"W","A","R","N","I","N","G">>
LOG_LEVEL_ERROR == <<"E","R","R","O","R">>
LOG_LEVEL_CRITICAL == <<"C","R","I","T","I","C","A","L">>
LOG_LEVEL_FATAL == <<"F","A","T","A","L">>

\* a bug: FATAL left out of the error levels
ERROR_LEVELS_NoFatal == <<LOG_LEVEL_ERROR, LOG_LEVEL_CRITICAL>>

ERROR_LEVELS == <<LOG_LEVEL_ERROR, LOG_LEVEL_CRITICAL, LOG_LEVEL_FATAL>>

ERROR_CATEGORY_DATABASE == "Database"
ERROR_CATEGORY_HTTP == "HTTP/Network"
ERROR_CATEGORY_NULL_POINTER == "NullPointer/Attribute"
ERROR_CATEGORY_STACK_TRACE == "Exception/StackTrace"
ERROR_CATEGORY_GENERAL == "General"

MAX_SAMPLE_ERRORS == 10

----------------------------------------------------------------------------
(* utils/log_utils.py: LogPatterns                                         *)

\* the alternatives of the level group of STANDARD_LOG, in its order
STANDARD_LOG_LEVELS ==
    << LOG_LEVEL_DEBUG, LOG_LEVEL_INFO, LOG_LEVEL_WARN, LOG_LEVEL_WARNING,
       LOG_LEVEL_ERROR, LOG_LEVEL_CRITICAL, LOG_LEVEL_FATAL >>

\* STANDARD_LOG.match(line): <<>> when the line does not match, else the
\* named groups.  Every quantifier of the pattern is followed by a character
\* outside its class, so the greedy match is the only one.
STANDARD_LOG_match(line) ==
    LET t  == SpanEnd(line, 11, SpaceSet)                 \* hour
        f  == IF CharAt(line, t + 8, ".") /\ DigitsAt(line, t + 9, 1)
              THEN SpanEnd(line, t + 9, DigitSet)
              ELSE t + 8                                   \* after the timestamp
        l  == SpanEnd(line, f, SpaceSet)                   \* level
        ok == {j \in 1..Len(STANDARD_LOG_LEVELS) :
                 /\ StartsAt(line, STANDARD_LOG_LEVELS[j], l)
                 /\ ClassAt(line, l + Len(STANDARD_LOG_LEVELS[j]), SpaceSet)}
        lv == STANDARD_LOG_LEVELS[CHOOSE j \in ok : \A k \in ok : j <= k]
        b  == SpanEnd(line, l + Len(lv), SpaceSet)         \* "["
        c  == SpanUntil(line, b + 1, "]")                  \* "]"
        m  == SpanEnd(line, c + 1, SpaceSet)               \* message
    IN  IF /\ DigitsAt(line, 1, 4) /\ CharAt(line, 5, "-")
           /\ DigitsAt(line, 6, 2) /\ CharAt(line, 8, "-")
           /\ DigitsAt(line, 9, 2) /\ ClassAt(line, 11, SpaceSet)
           /\ DigitsAt(line, t, 2) /\ CharAt(line, t + 2, ":")
           /\ DigitsAt(line, t + 3, 2) /\ CharAt(line, t + 5, ":")
           /\ DigitsAt(line, t + 6, 2)
           /\ ClassAt(line, f, SpaceSet)
           /\ ok # {}
           /\ CharAt(line, b, "[")
           /\ c > b + 1
           /\ CharAt(line, c, "]")
           /\ ClassAt(line, c + 1, SpaceSet)
        THEN Some([timestamp |-> SubSeq(line, 1, f - 1),
                   level |-> lv,
                   service |-> SubSeq(line, b + 1, c - 1),
                   message |-> SubSeq(line, m, SpanUntil(line, m, "\n") - 1)])
        ELSE NoneOpt

DATABASE_ERROR_search(msg) ==
    LET s == lower(msg)
    IN  \/ Contains(s, <<"d","a","t","a","b","a","s","e">>)
        \/ Contains(s, <<"s","q","l">>)
        \/ Contains(s, <<"p","o","s","t","g","r","e","s">>)
        \/ Contains(s, <<"m","y","s","q","l">>)
        \/ Contains(s, <<"m","o","n","g","o","d","b">>)
        \/ MatchesGap(s, <<"c","o","n","n","e","c","t","i","o","n">>, <<"t","i","m","e","o","u","t">>)
        \/ Contains(s, <<"d","e","a","d","l","o","c","k">>)

HTTP_ERROR_search(msg) ==
    LET s == lower(msg)
    IN  \/ MatchesGapDigits(s, <<"h","t","t","p">>, DigitSet, 2)
        \/ MatchesGapDigits(s, <<"s","t","a","t","u","s">>, {"4", "5"}, 2)
        \/ MatchesGap(s, <<"c","o","n","n","e","c","t","i","o","n">>, <<"r","e","f","u","s","e","d">>)
        \/ MatchesGap(s, <<"t","i","m","e","o","u","t">>, <<"r","e","q","u","e","s","t">>)

NULL_POINTER_search(msg) ==
    LET s == lower(msg)
    IN  \/ MatchesGap(s, <<"n","u","l","l">>, <<"p","o","i","n","t","e","r">>)
        \/ MatchesGap(s, <<"n","o","n","e">>, <<"t","y","p","e">>)
        \/ MatchesGap(s, <<"a","t","t","r","i","b","u","t","e">>, <<"e","r","r","o","r">>)
        \/ MatchesGap(s, <<"k","e","y">>, <<"e","r","r","o","r">>)

\* case-sensitive, re.MULTILINE
STACK_TRACE_search(msg) ==
    \/ Contains(msg, <<"T","r","a","c","e","b","a","c","k">>)
    \/ Contains(msg, <<"S","t","a","c","k"," ","t","r","a","c","e">>)
    \/ MatchesIndented(msg, <<"a","t">>, <<>>)
    \/ MatchesIndented(msg, <<"F","i","l","e">>, <<"\"">>)

----------------------------------------------------------------------------
(* utils/log_utils.py: functions                                           *)

\* parse_log_line: None (<<>>) or the LogEntry
parse_log_line(line) ==
    LET match == STANDARD_LOG_match(line)
    IN  IF match # NoneOpt
        THEN Some([timestamp |-> match[1].timestamp,
                   level |-> match[1].level,
                   service |-> match[1].service,
                   message |-> match[1].message,
                   raw_line |-> line])
        ELSE NoneOpt

\* a bug: an elif chain that stops at the first matching category
categorize_error_FirstMatch(msg) ==
    IF DATABASE_ERROR_search(msg) THEN <<ERROR_CATEGORY_DATABASE>>
    ELSE IF HTTP_ERROR_search(msg) THEN <<ERROR_CATEGORY_HTTP>>
    ELSE IF NULL_POINTER_search(msg) THEN <<ERROR_CATEGORY_NULL_POINTER>>
    ELSE IF STACK_TRACE_search(msg) THEN <<ERROR_CATEGORY_STACK_TRACE>>
    ELSE <<ERROR_CATEGORY_GENERAL>>

\* categorize_error: the list of categories, in the order of the tests
categorize_error(msg) ==
    LET c1 == IF DATABASE_ERROR_search(msg) THEN <<ERROR_CATEGORY_DATABASE>> ELSE <<>>
        c2 == IF HTTP_ERROR_search(msg) THEN Append(c1, ERROR_CATEGORY_HTTP) ELSE c1
        c3 == IF NULL_POINTER_search(msg) THEN Append(c2, ERROR_CATEGORY_NULL_POINTER) ELSE c2
        c4 == IF STACK_TRACE_search(msg) THEN Append(c3, ERROR_CATEGORY_STACK_TRACE) ELSE c3
    IN  IF c4 = <<>> THEN <<ERROR_CATEGORY_GENERAL>> ELSE c4

\* str.split("\n"): the text between the line breaks; one more piece than
\* there are line breaks, so "" splits into one empty line
split_lines(s) ==
    LET nl == {i \in 1..Len(s) : s[i] = "\n"}
        n == Cardinality(nl)
        pos(k) == IF k = 0 THEN 0
                  ELSE IF k = n + 1 THEN Len(s) + 1
                  ELSE CHOOSE i \in nl : Cardinality({j \in nl : j < i}) = k - 1
    IN  [k \in 1..(n + 1) |-> SubSeq(s, pos(k - 1) + 1, pos(k) - 1)]

\* a bug: warnings counted as errors
IsErrorEntry_WithWarning(entry) ==
    /\ entry # NoneOpt
    /\ \E j \in 1..Len(STANDARD_LOG_LEVELS) :
          j >= 3 /\ entry[1].level = STANDARD_LOG_LEVELS[j]

\* `entry and entry.level in ERROR_LEVELS`
IsErrorEntry(entry) ==
    /\ entry # NoneOpt
    /\ \E j \in 1..Len(ERROR_LEVELS) : entry[1].level = ERROR_LEVELS[j]

\* a bug: the timestamp of every error replaces the one kept
TrackFirstError_LastWins(first, entry) == Some(entry.timestamp)

\* `if first_error_time is None: first_error_time = entry.timestamp`
TrackFirstError(first, entry) ==
    IF first = NoneOpt THEN Some(entry.timestamp) ELSE first

\* error_counts[category] = error_counts.get(category, 0) + 1
DictIncrement(d, key) ==
    [k \in (DOMAIN d) \cup {key} |->
        IF k = key THEN (IF key \in DOMAIN d THEN d[key] ELSE 0) + 1 ELSE d[k]]

\* `for category in categories: ...` from the k-th category on
RECURSIVE CountFrom(_, _, _)
CountFrom(d, categories, k) ==
    IF k > Len(categories) THEN d
    ELSE CountFrom(DictIncrement(d, categories[k]), categories, k + 1)

\* a bug: only the first category of an error is counted
CountErrorTypes_FirstOnly(d, categories) == DictIncrement(d, categories[1])

\* the loop that counts every category of one error
CountErrorTypes(d, categories) == CountFrom(d, categories, 1)

\* a bug: the samples are not capped
SampleErrors_Uncapped(errs) == errs

\* errors[:MAX_SAMPLE_ERRORS]
SampleErrors(errs) ==
    SubSeq(errs, 1, IF Len(errs) < MAX_SAMPLE_ERRORS THEN Len(errs) ELSE MAX_SAMPLE_ERRORS)

\* list(a_set): the elements in some order, which the hashes of the run fix
ListsOfSet(S) ==
    {q \in [1..Cardinality(S) -> S] : \A a \in S : \E i \in DOMAIN q : q[i] = a}

\* extract_errors_from_logs is entered with a log text
ExtractIdle ==
    /\ log_content = <<>>
    /\ lines = <<>>
    /\ ex_pc = "idle"
    /\ ex_i = 0
    /\ errors = <<>>
    /\ error_counts = <<>>
    /\ first_error_time = NoneOpt
    /\ affected_services = {}
    /\ ex_result = NoneOpt

\* lines = log_content.split("\n") and the empty accumulators
ExtractSplit ==
    /\ ex_pc = "split"
    /\ lines' = split_lines(log_content)
    /\ ex_i' = 1
    /\ errors' = <<>>
    /\ error_counts' = <<>>
    /\ first_error_time' = NoneOpt
    /\ affected_services' = {}
    /\ ex_pc' = "scan"
    /\ UNCHANGED <<log_content, ex_result>>
    /\ UNCHANGED outside_extract

\* an iteration of the loop on a line that is no error entry
ExtractSkipLine ==
    /\ ex_pc = "scan"
    /\ ex_i <= Len(lines)
    /\ ~IsErrorEntry(parse_log_line(lines[ex_i]))
    /\ ex_i' = ex_i + 1
    /\ UNCHANGED <<log_content, lines, ex_pc, errors, error_counts,
                   first_error_time, affected_services, ex_result>>
    /\ UNCHANGED outside_extract

\* an iteration of the loop on an error entry
ExtractErrorLine ==
    /\ ex_pc = "scan"
    /\ ex_i <= Len(lines)
    /\ IsErrorEntry(parse_log_line(lines[ex_i]))
    /\ LET entry == parse_log_line(lines[ex_i])[1]
       IN  /\ errors' = Append(errors, entry)
           /\ affected_services' = affected_services \cup {entry.service}
           /\ first_error_time' = TrackFirstError(first_error_time, entry)
           /\ error_counts' = CountErrorTypes(error_counts, categorize_error(entry.message))
    /\ ex_i' = ex_i + 1
    /\ UNCHANGED <<log_content, lines, ex_pc, ex_result>>
    /\ UNCHANGED outside_extract

\* the loop is over: the result dict
ExtractReturn ==
    /\ ex_pc = "scan"
    /\ ex_i > Len(lines)
    /\ \E services \in ListsOfSet(affected_services) :
          ex_result' = Some([total_errors |-> Len(errors),
                             error_types |-> error_counts,
                             first_error_timestamp |-> first_error_time,
                             affected_services |-> services,
                             sample_errors |-> SampleErrors(errors)])
    /\ ex_pc' = "done"
    /\ UNCHANGED <<log_content, lines, ex_i, errors, error_counts,
                   first_error_time, affected_services>>
    /\ UNCHANGED outside_extract

ExtractNext ==
    \/ ExtractSplit
    \/ ExtractSkipLine
    \/ ExtractErrorLine
    \/ ExtractReturn

----------------------------------------------------------------------------
(* The log texts extract_errors_from_logs is called with                   *)

TS_LATE == <<"2","0","2","6","-","0","1","-","2","3"," ","1","4",":","2","3",":","4","5",".","1","2","3">>
TS_EARLY == <<"2","0","2","6","-","0","1","-","2","3"," ","1","4",":","2","3",":","4","0">>

LineDbTimeout == TS_LATE \o <<" ","E","R","R","O","R"," ","[","p","a","y","m","e","n","t","]"," ","D","a","t","a","b","a","s","e"," ","c","o","n","n","e","c","t","i","o","n"," ","t","i","m","e","o","u","t">>
LineHttpPostgres == TS_EARLY \o <<" ","C","R","I","T","I","C","A","L"," ","[","a","p","i","]"," ","H","T","T","P"," ","5","0","0"," ","f","r","o","m"," ","p","o","s","t","g","r","e","s">>
LineCrash == TS_LATE \o <<" ","F","A","T","A","L"," ","[","p","a","y","m","e","n","t","]"," ","w","o","r","k","e","r"," ","c","r","a","s","h","e","d">>
LineTraceback == TS_EARLY \o <<" "," ","E","R","R","O","R"," "," ","[","a","u","t","h","]"," "," ","T","r","a","c","e","b","a","c","k",":"," ","N","o","n","e","T","y","p","e"," ","h","a","s"," ","n","o"," ","a","t","t","r","i","b","u","t","e">>
LineInfo == TS_LATE \o <<" ","I","N","F","O"," ","[","a","p","i","]"," ","d","a","t","a","b","a","s","e"," ","s","t","a","r","t","e","d">>
LineWarning == TS_LATE \o <<" ","W","A","R","N","I","N","G"," ","[","a","p","i","]"," ","s","l","o","w"," ","s","q","l"," ","q","u","e","r","y">>
LineWarn == TS_LATE \o <<" ","W","A","R","N"," ","[","a","p","i","]"," ","H","T","T","P"," ","4","2","9"," ","r","e","t","r","y">>
LineDebug == TS_EARLY \o <<" ","D","E","B","U","G"," ","[","a","u","t","h","]"," ","k","e","y"," ","e","r","r","o","r"," ","i","g","n","o","r","e","d">>
LineLowercase == TS_LATE \o <<" ","e","r","r","o","r"," ","[","a","p","i","]"," ","h","t","t","p"," ","5","0","3">>
LineErrors == TS_LATE \o <<" ","E","R","R","O","R","S"," ","[","a","p","i","]"," ","s","q","l">>
LineNoBrackets == TS_LATE \o <<" ","E","R","R","O","R"," ","p","a","y","m","e","n","t"," ","k","e","y"," ","e","r","r","o","r">>
LineStackFrame == <<" "," "," "," ","a","t"," ","c","o","m",".","a","p","p",".","P","a","y",".","r","u","n","(","P","a","y",".","j","a","v","a",":","4","2",")">>
LineIndented == <<" ">> \o LineDbTimeout
LineEmpty == <<>>

LogLines ==
    { LineDbTimeout, LineHttpPostgres, LineCrash, LineTraceback, LineInfo,
      LineWarning, LineWarn, LineDebug, LineLowercase, LineErrors,
      LineNoBrackets, LineStackFrame, LineIndented, LineEmpty }

ErrorLines == { LineDbTimeout, LineHttpPostgres, LineInfo }

MaxLines == 2
MaxBlock == 2
MaxRepeat == 6

\* "\n".join(ls)
RECURSIVE join_lines(_)
join_lines(ls) ==
    IF Len(ls) = 0 THEN <<>>
    ELSE IF Len(ls) = 1 THEN ls[1]
    ELSE ls[1] \o <<"\n">> \o join_lines(Tail(ls))

\* block repeated n times
Repeat(block, n) == [i \in 1..(n * Len(block)) |-> block[((i - 1) % Len(block)) + 1]]

\* short logs over every kind of line, and long logs with many errors
LogTexts ==
    {join_lines(ls) : ls \in SeqsUpTo(LogLines, MaxLines)}
    \cup {join_lines(Repeat(b, n)) :
            b \in SeqsUpTo(ErrorLines, MaxBlock) \ {<<>>}, n \in 1..MaxRepeat}

ExtractInit ==
    /\ log_content \in LogTexts
    /\ lines = <<>>
    /\ ex_pc = "split"
    /\ ex_i = 0
    /\ errors = <<>>
    /\ error_counts = <<>>
    /\ first_error_time = NoneOpt
    /\ affected_services = {}
    /\ ex_result = NoneOpt

----------------------------------------------------------------------------
(* Calls of categorize_error                                               *)

MaxFragments == 2

MessageFragments ==
    { <<"D","a","t","a","b","a","s","e">>, <<"c","o","n","n","e","c","t","i","o","n">>, <<" ","t","i","m","e","o","u","t">>, <<"H","T","T","P"," ","5","0","0">>, <<"s","t","a","t","u","s"," ","4","0","4">>,
      <<" ","r","e","f","u","s","e","d">>, <<"N","o","n","e","T","y","p","e">>, <<"k","e","y">>, <<" ","e","r","r","o","r">>, <<"T","r","a","c","e","b","a","c","k">>,
      <<"s","t","a","c","k"," ","t","r","a","c","e">>, <<"\n"," "," ","a","t"," ","x">>, <<"\n">>, <<"j","u","s","t"," ","s","o","m","e"," ","t","e","x","t">> }

RECURSIVE concat(_)
concat(parts) == IF parts = <<>> THEN <<>> ELSE Head(parts) \o concat(Tail(parts))

CategorizeMessages == {concat(parts) : parts \in SeqsUpTo(MessageFragments, MaxFragments)}

CategorizeIdle ==
    /\ cat_message = <<>>
    /\ cat_pc = "idle"
    /\ cat_result = NoneOpt

CategorizeInit ==
    /\ cat_message \in CategorizeMessages
    /\ cat_pc = "call"
    /\ cat_result = NoneOpt

\* categorize_error(cat_message) returns
CategorizeCall ==
    /\ cat_pc = "call"
    /\ cat_result' = Some(categorize_error(cat_message))
    /\ cat_pc' = "done"
    /\ UNCHANGED cat_message
    /\ UNCHANGED outside_categorize

CategorizeNext == CategorizeCall

----------------------------------------------------------------------------
(* datetime                                                                *)
(* A datetime is a record of its fields; tzinfo is <<>> for a naive value  *)
(* and <<offset>>, the UTC offset in seconds, for an aware one.            *)

DigitVal(c) == CHOOSE v \in 0..9 : DigitSeq[v + 1] = c

\* the number written by the n digits of s from position i
RECURSIVE Number(_, _, _)
Number(s, i, n) ==
    IF n = 0 THEN 0 ELSE 10 * Number(s, i, n - 1) + DigitVal(s[i + n - 1])

IsLeap(y) == (y % 4 = 0 /\ y % 100 # 0) \/ y % 400 = 0

DaysInMonth(y, m) ==
    IF m = 2 THEN (IF IsLeap(y) THEN 29 ELSE 28)
    ELSE IF m \in {4, 6, 9, 11} THEN 30 ELSE 31

\* the constructor datetime(...) accepts the fields
ValidFields(y, mo, d, h, mi, s) ==
    /\ y >= 1 /\ y <= 9999
    /\ mo >= 1 /\ mo <= 12
    /\ d >= 1 /\ d <= DaysInMonth(y, mo)
    /\ h <= 23 /\ mi <= 59 /\ s <= 59

\* the microseconds of a fraction: its first six digits, padded with zeros
RECURSIVE Microseconds(_, _, _, _)
Microseconds(s, i, n, k) ==
    IF k = 0 THEN 0
    ELSE 10 * Microseconds(s, i, n, k - 1) + (IF k <= n THEN DigitVal(s[i + k - 1]) ELSE 0)

\* the date and time of s at positions 1..19, any separator at 11
DateTimeShape(s) ==
    /\ DigitsAt(s, 1, 4) /\ CharAt(s, 5, "-") /\ DigitsAt(s, 6, 2)
    /\ CharAt(s, 8, "-") /\ DigitsAt(s, 9, 2) /\ Len(s) >= 11
    /\ DigitsAt(s, 12, 2) /\ CharAt(s, 14, ":") /\ DigitsAt(s, 15, 2)
    /\ CharAt(s, 17, ":") /\ DigitsAt(s, 18, 2)

\* datetime.fromisoformat on YYYY-MM-DD?HH:MM:SS[.f+][+HH[:]MM]: <<>> for a
\* ValueError, else the datetime. Before an offset the parser passes over
\* one character that ends the seconds, so that git's "%ai" dates
\* ("2024-01-15 10:30:00 +0000") are accepted.
fromisoformat(s) ==
    LET f  == IF CharAt(s, 20, ".") /\ DigitsAt(s, 21, 1)
              THEN SpanEnd(s, 21, DigitSet)
              ELSE IF /\ Len(s) >= 21 /\ s[20] \notin {"+", "-", "Z"}
                      /\ s[21] \in {"+", "-"}
              THEN 21 ELSE 20
        us == IF CharAt(s, 20, ".") /\ f > 21 THEN Microseconds(s, 21, f - 21, 6) ELSE 0
        colon == CharAt(s, f + 3, ":")
        zm == IF colon THEN f + 4 ELSE f + 3             \* minutes of the offset
        hasTz == f <= Len(s)
        tzOk == /\ ClassAt(s, f, {"+", "-"}) /\ DigitsAt(s, f + 1, 2)
                /\ DigitsAt(s, zm, 2) /\ Len(s) = zm + 1
        off == (IF s[f] = "-" THEN -1 ELSE 1)
               * (Number(s, f + 1, 2) * 3600 + Number(s, zm, 2) * 60)
    IN  IF /\ DateTimeShape(s)
           /\ ValidFields(Number(s, 1, 4), Number(s, 6, 2), Number(s, 9, 2),
                          Number(s, 12, 2), Number(s, 15, 2), Number(s, 18, 2))
           /\ hasTz => (tzOk /\ off > -86400 /\ off < 86400)
        THEN Some([year |-> Number(s, 1, 4), month |-> Number(s, 6, 2),
                   day |-> Number(s, 9, 2), hour |-> Number(s, 12, 2),
                   minute |-> Number(s, 15, 2), second |-> Number(s, 18, 2),
                   microsecond |-> us,
                   tzinfo |-> IF hasTz THEN Some(off) ELSE NoneOpt])
        ELSE NoneOpt

\* datetime.strptime(s, "%Y-%m-%d %H:%M:%S") on text of that width
strptime(s) ==
    IF /\ DateTimeShape(s) /\ Len(s) = 19 /\ s[11] = " "
       /\ ValidFields(Number(s, 1, 4), Number(s, 6, 2), Number(s, 9, 2),
                      Number(s, 12, 2), Number(s, 15, 2), Number(s, 18, 2))
    THEN Some([year |-> Number(s, 1, 4), month |-> Number(s, 6, 2),
               day |-> Number(s, 9, 2), hour |-> Number(s, 12, 2),
               minute |-> Number(s, 15, 2), second |-> Number(s, 18, 2),
               microsecond |-> 0, tzinfo |-> NoneOpt])
    ELSE NoneOpt

\* the day number of a date in the proleptic Gregorian calendar
DayNumber(y, m, d) ==
    LET yy == IF m <= 2 THEN y - 1 ELSE y
        era == yy \div 400
        yoe == yy - era * 400
        doy == (153 * ((m + 9) % 12) + 2) \div 5 + d - 1
    IN  era * 146097 + yoe * 365 + yoe \div 4 - yoe \div 100 + doy

\* the instant of a datetime whose UTC offset is off seconds, as
\* <<day, second of the day, microsecond>> in UTC
UtcInstant(dt, off) ==
    LET secs == dt.hour * 3600 + dt.minute * 60 + dt.second - off
        carry == IF secs < 0 THEN -1 ELSE IF secs >= 86400 THEN 1 ELSE 0
    IN  << DayNumber(dt.year, dt.month, dt.day) + carry,
           secs - carry * 86400,
           dt.microsecond >>

\* a < b for instants
InstantLess(a, b) ==
    \/ a[1] < b[1]
    \/ a[1] = b[1] /\ a[2] < b[2]
    \/ a[1] = b[1] /\ a[2] = b[2] /\ a[3] < b[3]

----------------------------------------------------------------------------
(* sources/local.py                                                        *)

LOG_FILE_EXTENSION == <<".","l","o","g">>

\* _normalize_datetime: the datetime in UTC, given by its instant; a naive
\* datetime is taken as UTC
normalize_datetime(dt) ==
    IF dt.tzinfo = NoneOpt THEN UtcInstant(dt, 0) ELSE UtcInstant(dt, dt.tzinfo[1])

\* the position after (?:\.\d+)? tried at position p
AfterFraction(s, p) ==
    IF CharAt(s, p, ".") /\ DigitsAt(s, p + 1, 1) THEN SpanEnd(s, p + 1, DigitSet) ELSE p

\* the position after (?:Z|[+-]\d{2}:?\d{2})? tried at position p
AfterZone(s, p) ==
    IF CharAt(s, p, "Z") THEN p + 1
    ELSE IF ClassAt(s, p, {"+", "-"}) /\ DigitsAt(s, p + 1, 2)
    THEN IF CharAt(s, p + 3, ":") /\ DigitsAt(s, p + 4, 2) THEN p + 6
         ELSE IF DigitsAt(s, p + 3, 2) THEN p + 5
         ELSE p
    ELSE p

\* \s+\[?(\w+)\]?\s+(.*) from position z, after a timestamp s[1..z-1]; with
\* brackets FALSE: \s+(\w+)\s+(.*).  Each quantifier is followed by a
\* character outside its class, so the greedy match is the only one.
LevelAndMessage(s, z, brackets) ==
    LET w  == SpanEnd(s, z, SpaceSet)
        lb == IF brackets /\ CharAt(s, w, "[") THEN w + 1 ELSE w
        le == SpanEnd(s, lb, WordSet)
        rb == IF brackets /\ CharAt(s, le, "]") THEN le + 1 ELSE le
        m  == SpanEnd(s, rb, SpaceSet)
    IN  IF /\ ClassAt(s, z, SpaceSet)
           /\ ClassAt(s, lb, WordSet)
           /\ ClassAt(s, rb, SpaceSet)
        THEN Some(<<SubSeq(s, 1, z - 1), SubSeq(s, lb, le - 1),
                    SubSeq(s, m, SpanUntil(s, m, "\n") - 1)>>)
        ELSE NoneOpt

\* _LOG_PATTERNS[0].match(line): <<>> or the groups <<timestamp, level, message>>
LOG_PATTERN_ISO_match(s) ==
    IF /\ DateTimeShape(s) /\ s[11] \in {"T", " "}
    THEN LevelAndMessage(s, AfterZone(s, AfterFraction(s, 20)), TRUE)
    ELSE NoneOpt

\* _LOG_PATTERNS[1].match(line)
LOG_PATTERN_SIMPLE_match(s) ==
    IF /\ DateTimeShape(s) /\ s[11] = " "
    THEN LevelAndMessage(s, 20, FALSE)
    ELSE NoneOpt

\* `for pattern in _LOG_PATTERNS: match = pattern.match(line)`: the groups
\* of the first pattern that matches
LOG_PATTERNS_match(s) ==
    IF LOG_PATTERN_ISO_match(s) # NoneOpt THEN LOG_PATTERN_ISO_match(s)
    ELSE LOG_PATTERN_SIMPLE_match(s)

\* str.strip()
strip(s) ==
    LET keep == {i \in 1..Len(s) : s[i] \notin SpaceSet}
    IN  IF keep = {} THEN <<>>
        ELSE SubSeq(s, CHOOSE i \in keep : \A j \in keep : i <= j,
                       CHOOSE i \in keep : \A j \in keep : i >= j)

\* str.replace("Z", "+00:00")
RECURSIVE replace_Z(_)
replace_Z(s) ==
    IF s = <<>> THEN <<>>
    ELSE (IF Head(s) = "Z" THEN <<"+","0","0",":","0","0">> ELSE <<Head(s)>>) \o replace_Z(Tail(s))

\* LocalLogAdapter._parse_timestamp; now is the value of datetime.now()
parse_timestamp(timestamp_str, now) ==
    IF fromisoformat(replace_Z(timestamp_str)) # NoneOpt
    THEN fromisoformat(replace_Z(timestamp_str))[1]
    ELSE IF strptime(timestamp_str) # NoneOpt THEN strptime(timestamp_str)[1]
    ELSE now

\* a bug: WARN is not mapped to WARNING
normalize_level_KeepWarn(level) == upper(level)

\* LocalLogAdapter._normalize_level
normalize_level(level) ==
    IF upper(level) = <<"W","A","R","N">> THEN LOG_LEVEL_WARNING ELSE upper(level)

\* LocalLogAdapter._parse_log_line: None (<<>>) or the LogEntry
local_parse_log_line(raw, now) ==
    LET line == strip(raw)
        match == LOG_PATTERNS_match(line)
    IN  IF line = <<>> THEN NoneOpt
        ELSE IF match # NoneOpt
        THEN Some([timestamp |-> parse_timestamp(match[1][1], now),
                   level |-> normalize_level(match[1][2]),
                   message |-> strip(match[1][3]),
                   source |-> "local"])
        ELSE Some([timestamp |-> now,
                   level |-> LOG_LEVEL_INFO,
                   message |-> line,
                   source |-> "local"])

----------------------------------------------------------------------------
(* The files and calls of LocalLogAdapter.get_logs                         *)

MaxFileLines == 2

FileLineAtSince == <<"2","0","2","4","-","0","1","-","0","1","T","1","0",":","0","0",":","0","0","Z"," ","[","E","R","R","O","R","]"," ","a","t"," ","s","i","n","c","e","\n">>
FileLineBeforeSince == <<"2","0","2","4","-","0","1","-","0","1"," ","0","9",":","5","9",":","5","9",".","9","9","9","9","9","9"," ","E","R","R","O","R"," ","b","e","f","o","r","e"," ","s","i","n","c","e","\n">>
FileLineAtUntil == <<"2","0","2","4","-","0","1","-","0","1","T","1","1",":","0","0",":","0","1","+","0","1",":","0","0"," ","w","a","r","n"," ","a","t"," ","u","n","t","i","l","\n">>
FileLineAfterUntil == <<"2","0","2","4","-","0","1","-","0","1"," ","1","0",":","0","0",":","0","1",".","0","0","0","0","0","1"," ","W","A","R","N"," ","a","f","t","e","r"," ","u","n","t","i","l","\n">>
FileLineInside == <<"2","0","2","4","-","0","1","-","0","1"," ","1","0",":","0","0",":","0","0",".","5"," ","[","W","a","r","n","]"," ","i","n","s","i","d","e","\n">>
FileLineOffset == <<"2","0","2","4","-","0","1","-","0","1","T","1","0",":","0","0",":","0","0",".","5","+","0","1",":","0","0"," ","E","R","R","O","R"," ","a","n"," ","h","o","u","r"," ","e","a","r","l","y","\n">>
FileLineBadMonth == <<"2","0","2","4","-","1","3","-","0","1"," ","1","0",":","0","0",":","0","0"," ","T","R","A","C","E"," ","n","o"," ","s","u","c","h"," ","m","o","n","t","h","\n">>
FileLinePlain == <<" "," "," "," ","a","t"," ","c","o","m",".","a","p","p",".","P","a","y",".","r","u","n","(","P","a","y",".","j","a","v","a",":","4","2",")","\n">>
FileLineBlank == <<" "," ","\n">>

FileLines ==
    { FileLineAtSince, FileLineBeforeSince, FileLineAtUntil, FileLineAfterUntil,
      FileLineInside, FileLineOffset, FileLineBadMonth, FileLinePlain,
      FileLineBlank }

ServiceNames == { <<"p","a","y","m","e","n","t">>, <<"m","i","s","s","i","n","g">> }

\* 2024-01-01 10:00:00 to 10:00:01 UTC, written naive or with an offset
TimeWindows ==
    { [since |-> [year |-> 2024, month |-> 1, day |-> 1, hour |-> 10, minute |-> 0,
                  second |-> 0, microsecond |-> 0, tzinfo |-> NoneOpt],
       until |-> [year |-> 2024, month |-> 1, day |-> 1, hour |-> 11, minute |-> 0,
                  second |-> 1, microsecond |-> 0, tzinfo |-> Some(3600)]],
      [since |-> [year |-> 2024, month |-> 1, day |-> 1, hour |-> 5, minute |-> 0,
                  second |-> 0, microsecond |-> 0, tzinfo |-> Some(-18000)],
       until |-> [year |-> 2024, month |-> 1, day |-> 1, hour |-> 10, minute |-> 0,
                  second |-> 1, microsecond |-> 0, tzinfo |-> NoneOpt]] }

LevelFilters ==
    { NoneOpt, Some(LOG_LEVEL_WARNING), Some(LOG_LEVEL_ERROR), Some(LOG_LEVEL_WARN),
      Some(<<>>) }

\* the values datetime.now() returns while the file is read
NowValues ==
    { [year |-> 2024, month |-> 1, day |-> 1, hour |-> 10, minute |-> 0,
       second |-> 0, microsecond |-> 250000, tzinfo |-> NoneOpt],
      [year |-> 2024, month |-> 6, day |-> 1, hour |-> 12, minute |-> 0,
       second |-> 0, microsecond |-> 0, tzinfo |-> NoneOpt] }

\* self._parse_log_line(line) for every line a file may hold and every value
\* of datetime.now(), computed once
ParsedFileLines ==
    [l \in FileLines |-> [now \in NowValues |-> local_parse_log_line(l, now)]]

----------------------------------------------------------------------------
(* LocalLogAdapter.get_logs                                                *)

\* the configured log directory and the only log file it holds
LOG_DIRECTORY == <<"d","a","t","a","/","l","o","g","s">>
ExistingLogFile == <<"d","a","t","a","/","l","o","g","s","/","p","a","y","m","e","n","t",".","l","o","g">>

\* LocalLogAdapter._get_log_file_path
get_log_file_path(service) == LOG_DIRECTORY \o <<"/">> \o service \o LOG_FILE_EXTENSION

\* Path.exists()
exists(path) == path = ExistingLogFile

\* a bug: the bounds of the window are excluded
OutsideWindow_Exclusive(entry_utc, s_utc, u_utc) ==
    ~InstantLess(s_utc, entry_utc) \/ ~InstantLess(entry_utc, u_utc)

\* `entry_utc < since_utc or entry_utc > until_utc`
OutsideWindow(entry_utc, s_utc, u_utc) ==
    InstantLess(entry_utc, s_utc) \/ InstantLess(u_utc, entry_utc)

\* `level and entry.level != level`; the filter is <<>> for None
LevelRejected(level, entry) ==
    /\ level # NoneOpt
    /\ level[1] # <<>>
    /\ entry.level # level[1]

LocalIdle ==
    /\ local_service = <<>>
    /\ local_file = <<>>
    /\ local_since = NoneOpt
    /\ local_until = NoneOpt
    /\ local_level = NoneOpt
    /\ local_pc = "idle"
    /\ local_i = 0
    /\ since_utc = <<>>
    /\ until_utc = <<>>
    /\ local_entries = <<>>
    /\ local_yielded = <<>>
    /\ local_opened = FALSE

\* a bug: the file is opened without the test, and open() raises
LocalMissing_NoCheck ==
    /\ local_pc = "start"
    /\ ~exists(get_log_file_path(local_service))
    /\ local_opened' = TRUE
    /\ local_pc' = "error"
    /\ UNCHANGED <<local_service, local_file, local_since, local_until, local_level,
                   local_i, since_utc, until_utc, local_entries, local_yielded>>
    /\ UNCHANGED outside_local

\* `if not log_file.exists(): return`
LocalMissing ==
    /\ local_pc = "start"
    /\ ~exists(get_log_file_path(local_service))
    /\ local_pc' = "done"
    /\ UNCHANGED <<local_service, local_file, local_since, local_until, local_level,
                   local_i, since_utc, until_utc, local_entries, local_yielded,
                   local_opened>>
    /\ UNCHANGED outside_local

\* the window is normalized and the file opened
LocalOpen ==
    /\ local_pc = "start"
    /\ exists(get_log_file_path(local_service))
    /\ since_utc' = normalize_datetime(local_since[1])
    /\ until_utc' = normalize_datetime(local_until[1])
    /\ local_opened' = TRUE
    /\ local_i' = 1
    /\ local_pc' = "read"
    /\ UNCHANGED <<local_service, local_file, local_since, local_until, local_level,
                   local_entries, local_yielded>>
    /\ UNCHANGED outside_local

\* an iteration of the loop on a blank line: `if entry is None: continue`
LocalSkipBlank ==
    /\ local_pc = "read"
    /\ local_i <= Len(local_file)
    /\ \E now \in NowValues :
          LET entry == ParsedFileLines[local_file[local_i]][now]
          IN  /\ entry = NoneOpt
              /\ local_entries' = Append(local_entries, entry)
    /\ local_i' = local_i + 1
    /\ UNCHANGED <<local_service, local_file, local_since, local_until, local_level,
                   local_pc, since_utc, until_utc, local_yielded, local_opened>>
    /\ UNCHANGED outside_local

\* an iteration on an entry outside the time range
LocalSkipOutsideWindow ==
    /\ local_pc = "read"
    /\ local_i <= Len(local_file)
    /\ \E now \in NowValues :
          LET entry == ParsedFileLines[local_file[local_i]][now]
          IN  /\ entry # NoneOpt
              /\ OutsideWindow(normalize_datetime(entry[1].timestamp), since_utc, until_utc)
              /\ local_entries' = Append(local_entries, entry)
    /\ local_i' = local_i + 1
    /\ UNCHANGED <<local_service, local_file, local_since, local_until, local_level,
                   local_pc, since_utc, until_utc, local_yielded, local_opened>>
    /\ UNCHANGED outside_local

\* an iteration on an entry in the time range that the level filter rejects
LocalSkipLevel ==
    /\ local_pc = "read"
    /\ local_i <= Len(local_file)
    /\ \E now \in NowValues :
          LET entry == ParsedFileLines[local_file[local_i]][now]
          IN  /\ entry # NoneOpt
              /\ ~OutsideWindow(normalize_datetime(entry[1].timestamp), since_utc, until_utc)
              /\ LevelRejected(local_level, entry[1])
              /\ local_entries' = Append(local_entries, entry)
    /\ local_i' = local_i + 1
    /\ UNCHANGED <<local_service, local_file, local_since, local_until, local_level,
                   local_pc, since_utc, until_utc, local_yielded, local_opened>>
    /\ UNCHANGED outside_local

\* an iteration that yields the entry
LocalYield ==
    /\ local_pc = "read"
    /\ local_i <= Len(local_file)
    /\ \E now \in NowValues :
          LET entry == ParsedFileLines[local_file[local_i]][now]
          IN  /\ entry # NoneOpt
              /\ ~OutsideWindow(normalize_datetime(entry[1].timestamp), since_utc, until_utc)
              /\ ~LevelRejected(local_level, entry[1])
              /\ local_entries' = Append(local_entries, entry)
              /\ local_yielded' = Append(local_yielded, entry[1])
    /\ local_i' = local_i + 1
    /\ UNCHANGED <<local_service, local_file, local_since, local_until, local_level,
                   local_pc, since_utc, until_utc, local_opened>>
    /\ UNCHANGED outside_local

\* the file is exhausted and closed
LocalEndOfFile ==
    /\ local_pc = "read"
    /\ local_i > Len(local_file)
    /\ local_pc' = "done"
    /\ UNCHANGED <<local_service, local_file, local_since, local_until, local_level,
                   local_i, since_utc, until_utc, local_entries, local_yielded,
                   local_opened>>
    /\ UNCHANGED outside_local

LocalNext ==
    \/ LocalMissing
    \/ LocalOpen
    \/ LocalSkipBlank
    \/ LocalSkipOutsideWindow
    \/ LocalSkipLevel
    \/ LocalYield
    \/ LocalEndOfFile


LocalInit ==
    /\ local_service \in ServiceNames
    /\ local_file \in SeqsUpTo(FileLines, MaxFileLines)
    /\ \E w \in TimeWindows :
          /\ local_since = Some(w.since)
          /\ local_until = Some(w.until)
    /\ local_level \in LevelFilters
    /\ local_pc = "start"
    /\ local_i = 0
    /\ since_utc = <<>>
    /\ until_utc = <<>>
    /\ local_entries = <<>>
    /\ local_yielded = <<>>
    /\ local_opened = FALSE

----------------------------------------------------------------------------
(* sources/factory.py: SourceFactory                                       *)

LOG_SOURCE_LOCAL == <<"l","o","c","a","l">>
LOG_SOURCE_GITHUB_ACTIONS == <<"g","i","t","h","u","b","-","a","c","t","i","o","n","s">>
GIT_SOURCE_LOCAL == <<"l","o","c","a","l">>
DEFAULT_GIT_REPO_PATH == <<"d","a","t","a","/","m","o","c","k","_","r","e","p","o">>

\* raise ValueError(message)
ValueError(msg) == [type |-> "ValueError", message |-> msg]

\* LocalLogAdapter(log_directory=...): `log_directory or Config.LOG_DIRECTORY`
LocalLogAdapter(log_directory) ==
    [class |-> "LocalLogAdapter",
     path |-> IF log_directory = NoneOpt \/ log_directory[1] = <<>>
              THEN LOG_DIRECTORY ELSE log_directory[1]]

\* LocalGitAdapter(repo_path=...): `Path(repo_path or DEFAULT_GIT_REPO_PATH)`
LocalGitAdapter(repo_path) ==
    [class |-> "LocalGitAdapter",
     path |-> IF repo_path = NoneOpt \/ repo_path[1] = <<>>
              THEN DEFAULT_GIT_REPO_PATH ELSE repo_path[1]]

FactoryIdle ==
    /\ fac_method = "idle"
    /\ fac_source_type = <<>>
    /\ fac_kwargs = NoneOpt
    /\ fac_pc = "idle"
    /\ fac_result = NoneOpt
    /\ fac_error = NoneOpt
    /\ fac_constructed = <<>>

\* a bug: the source type is compared as given
create_log_source_NoLower ==
    /\ fac_pc = "call"
    /\ fac_method = "create_log_source"
    /\ LET source_type == fac_source_type
       IN  IF source_type = LOG_SOURCE_LOCAL
           THEN /\ fac_constructed' = Append(fac_constructed, LocalLogAdapter(fac_kwargs))
                /\ fac_result' = Some(LocalLogAdapter(fac_kwargs))
                /\ fac_pc' = "returned"
                /\ UNCHANGED fac_error
           ELSE /\ fac_error' = Some(ValueError(<<"U","n","k","n","o","w","n"," ","l","o","g"," ","s","o","u","r","c","e"," ","t","y","p","e",":"," ">> \o source_type))
                /\ fac_pc' = "raised"
                /\ UNCHANGED <<fac_result, fac_constructed>>
    /\ UNCHANGED <<fac_method, fac_source_type, fac_kwargs>>
    /\ UNCHANGED outside_factory

\* SourceFactory.create_log_source(source_type, **kwargs)
create_log_source ==
    /\ fac_pc = "call"
    /\ fac_method = "create_log_source"
    /\ LET source_type == lower(fac_source_type)
       IN  IF source_type = LOG_SOURCE_LOCAL
           THEN /\ fac_constructed' = Append(fac_constructed, LocalLogAdapter(fac_kwargs))
                /\ fac_result' = Some(LocalLogAdapter(fac_kwargs))
                /\ fac_pc' = "returned"
                /\ UNCHANGED fac_error
           ELSE IF source_type = LOG_SOURCE_GITHUB_ACTIONS
           THEN /\ fac_error' = Some(ValueError(
                       <<"G","i","t","H","u","b"," ","A","c","t","i","o","n","s"," ","r","e","q","u","i","r","e","s"," ","G","i","t","H","u","b","A","c","t","i","o","n","s","S","o","u","r","c","e","."," ","U","s","e"," ","c","r","e","a","t","e","_","g","i","t","h","u","b","_","a","c","t","i","o","n","s","_","s","o","u","r","c","e","(",")">>))
                /\ fac_pc' = "raised"
                /\ UNCHANGED <<fac_result, fac_constructed>>
           ELSE /\ fac_error' = Some(ValueError(<<"U","n","k","n","o","w","n"," ","l","o","g"," ","s","o","u","r","c","e"," ","t","y","p","e",":"," ">> \o source_type))
                /\ fac_pc' = "raised"
                /\ UNCHANGED <<fac_result, fac_constructed>>
    /\ UNCHANGED <<fac_method, fac_source_type, fac_kwargs>>
    /\ UNCHANGED outside_factory

\* SourceFactory.create_git_source(source_type, **kwargs)
create_git_source ==
    /\ fac_pc = "call"
    /\ fac_method = "create_git_source"
    /\ LET source_type == lower(fac_source_type)
       IN  IF source_type = GIT_SOURCE_LOCAL
           THEN /\ fac_constructed' = Append(fac_constructed, LocalGitAdapter(fac_kwargs))
                /\ fac_result' = Some(LocalGitAdapter(fac_kwargs))
                /\ fac_pc' = "returned"
                /\ UNCHANGED fac_error
           ELSE /\ fac_error' = Some(ValueError(<<"U","n","k","n","o","w","n"," ","g","i","t"," ","s","o","u","r","c","e"," ","t","y","p","e",":"," ">> \o source_type))
                /\ fac_pc' = "raised"
                /\ UNCHANGED <<fac_result, fac_constructed>>
    /\ UNCHANGED <<fac_method, fac_source_type, fac_kwargs>>
    /\ UNCHANGED outside_factory

FactoryNext ==
    \/ create_log_source
    \/ create_git_source

\* the source types and the directory keyword the factory is called with
SourceTypes ==
    { <<"l","o","c","a","l">>, <<"L","O","C","A","L">>, <<"L","o","c","a","l">>, <<"l","O","c","A","l">>, <<"g","i","t","h","u","b","-","a","c","t","i","o","n","s">>,
      <<"G","i","t","H","u","b","-","A","c","t","i","o","n","s">>, <<"G","I","T","H","U","B","-","A","C","T","I","O","N","S">>, <<"i","n","v","a","l","i","d","_","t","y","p","e">>, <<>>, <<"l","o","c","a","l","e">>,
      <<" ","l","o","c","a","l">>, <<"d","a","t","a","d","o","g">>, <<"g","i","t","h","u","b">>, <<"g","i","t","h","u","b","_","a","c","t","i","o","n","s">> }

FactoryKwargs == { NoneOpt, Some(<<"/","c","u","s","t","o","m","/","p","a","t","h">>), Some(<<"/","t","m","p","/","t","e","s","t">>), Some(<<>>) }

FactoryInit ==
    /\ fac_method \in {"create_log_source", "create_git_source"}
    /\ fac_source_type \in SourceTypes
    /\ fac_kwargs \in FactoryKwargs
    /\ fac_pc = "call"
    /\ fac_result = NoneOpt
    /\ fac_error = NoneOpt
    /\ fac_constructed = <<>>

----------------------------------------------------------------------------
(* sources/github_actions.py: GitHubActionsAdapter                         *)
(* A value of a JSON object's key is [kind, value]: the key is absent, its *)
(* value is null, or it is the string `value`.                             *)

Absent == [kind |-> "absent", value |-> <<>>]
JsonNull == [kind |-> "null", value |-> <<>>]
JsonStr(s) == [kind |-> "str", value |-> s]

DEFAULT_GITHUB_API_URL == <<"h","t","t","p","s",":","/","/","a","p","i",".","g","i","t","h","u","b",".","c","o","m">>

\* str(n) for an int n >= 0
RECURSIVE str_int(_)
str_int(n) ==
    IF n < 10 THEN <<DigitSeq[n + 1]>> ELSE str_int(n \div 10) \o <<DigitSeq[(n % 10) + 1]>>

\* the last `width` digits of n, padded with zeros (the %02d, %04d and %06d
\* of datetime.isoformat)
RECURSIVE zero_padded(_, _)
zero_padded(n, width) ==
    IF width = 0 THEN <<>>
    ELSE zero_padded(n \div 10, width - 1) \o <<DigitSeq[(n % 10) + 1]>>

\* datetime.isoformat() of a naive datetime
isoformat(dt) ==
    zero_padded(dt.year, 4) \o <<"-">> \o zero_padded(dt.month, 2) \o <<"-">>
    \o zero_padded(dt.day, 2) \o <<"T">> \o zero_padded(dt.hour, 2) \o <<":">>
    \o zero_padded(dt.minute, 2) \o <<":">> \o zero_padded(dt.second, 2)
    \o (IF dt.microsecond = 0 THEN <<>> ELSE <<".">> \o zero_padded(dt.microsecond, 6))

\* an exception of the given class
Raise(type, msg) == [type |-> type, message |-> msg]

\* _parse_repo: <<owner, repo_name>>, or <<>> for the ValueError
parse_repo(repo) ==
    IF ~Contains(repo, <<"/">>) THEN NoneOpt
    ELSE LET slash == SpanUntil(repo, 1, "/")
         IN  Some(<<SubSeq(repo, 1, slash - 1), SubSeq(repo, slash + 1, Len(repo))>>)

\* _extract_run_id_from_url: re.search(r"/actions/runs/(\d+)", run_url) and
\* int() of the group, or <<>> for the ValueError
extract_run_id_from_url(run_url) ==
    LET prefix == <<"/","a","c","t","i","o","n","s","/","r","u","n","s","/">>
        hits == {i \in 1..Len(run_url) :
                    StartsAt(run_url, prefix, i) /\ DigitsAt(run_url, i + Len(prefix), 1)}
    IN  IF hits = {} THEN NoneOpt
        ELSE LET i == CHOOSE h \in hits : \A g \in hits : h <= g
                 d == i + Len(prefix)
             IN  Some(Number(run_url, d, SpanEnd(run_url, d, DigitSet) - d))

\* _get_log_level: _CONCLUSION_TO_LEVEL.get(conclusion, "INFO")
get_log_level(conclusion) ==
    IF conclusion = JsonStr(<<"f","a","i","l","u","r","e">>) THEN LOG_LEVEL_ERROR
    ELSE IF conclusion = JsonStr(<<"c","a","n","c","e","l","l","e","d">>) THEN LOG_LEVEL_WARNING
    ELSE LOG_LEVEL_INFO

\* _parse_datetime(data.get(key, datetime.now().isoformat())): an absent key
\* takes the default, a null value has no replace() and raises
\* AttributeError, a text that is no ISO date raises ValueError
parse_datetime(field, now) ==
    IF field.kind = "null"
    THEN [raised |-> "AttributeError", value |-> NoneOpt]
    ELSE LET text == IF field.kind = "absent" THEN isoformat(now) ELSE field.value
             dt == fromisoformat(replace_Z(text))
         IN  IF dt = NoneOpt THEN [raised |-> "ValueError", value |-> NoneOpt]
             ELSE [raised |-> "", value |-> dt]

\* the message of a job or step entry
status_message(kind, item) ==
    kind \o <<":"," ">> \o item.name \o <<" ","-"," ","S","t","a","t","u","s",":"," ">> \o item.status
    \o (IF item.conclusion.kind = "str" /\ item.conclusion.value # <<>>
        THEN <<","," ","C","o","n","c","l","u","s","i","o","n",":"," ">> \o item.conclusion.value ELSE <<>>)

\* the LogEntry of _parse_job_logs ("Job") or _parse_step_logs ("Step")
status_entry(kind, item, timestamp) ==
    [timestamp |-> timestamp,
     level |-> get_log_level(item.conclusion),
     message |-> status_message(kind, item),
     source |-> "github-actions"]

\* the checks and the URL that get_workflow_run and get_workflow_logs start
\* with: the ValueError raised, or the URL of the run
run_url_of(repo, run_id, run_url) ==
    LET extract == run_url # NoneOpt /\ run_url[1] # <<>> /\ run_id = NoneOpt
        id == IF extract THEN extract_run_id_from_url(run_url[1]) ELSE run_id
    IN  IF run_id = NoneOpt /\ run_url = NoneOpt
        THEN [error |-> Some(Raise("ValueError", <<"E","i","t","h","e","r"," ","r","u","n","_","i","d"," ","o","r"," ","r","u","n","_","u","r","l"," ","m","u","s","t"," ","b","e"," ","p","r","o","v","i","d","e","d">>)),
              url |-> <<>>]
        ELSE IF extract /\ id = NoneOpt
        THEN [error |-> Some(Raise("ValueError", <<"I","n","v","a","l","i","d"," ","G","i","t","H","u","b"," ","A","c","t","i","o","n","s"," ","r","u","n"," ","U","R","L",":"," ">> \o run_url[1])),
              url |-> <<>>]
        ELSE IF parse_repo(repo) = NoneOpt
        THEN [error |-> Some(Raise("ValueError",
                  <<"I","n","v","a","l","i","d"," ","r","e","p","o"," ","f","o","r","m","a","t",":"," ">> \o repo \o <<"."," ","E","x","p","e","c","t","e","d"," ","'","o","w","n","e","r","/","r","e","p","o","'">>)),
              url |-> <<>>]
        ELSE [error |-> NoneOpt,
              url |-> DEFAULT_GITHUB_API_URL \o <<"/","r","e","p","o","s","/">> \o parse_repo(repo)[1][1] \o <<"/">>
                      \o parse_repo(repo)[1][2] \o <<"/","a","c","t","i","o","n","s","/","r","u","n","s","/">>
                      \o (IF id = NoneOpt THEN <<"N","o","n","e">> ELSE str_int(id[1]))]

\* _parse_workflow_run: the WorkflowRun of a run of the API, or the exception
\* of a date that does not parse
parse_workflow_run(data, now_created, now_updated) ==
    LET created == parse_datetime(data.created_at, now_created)
        updated == parse_datetime(data.updated_at, now_updated)
    IN  IF created.raised # "" THEN [raised |-> created.raised, value |-> NoneOpt]
        ELSE IF updated.raised # "" THEN [raised |-> updated.raised, value |-> NoneOpt]
        ELSE [raised |-> "",
              value |-> Some([id |-> data.id,
                              conclusion |-> data.conclusion,
                              created_at |-> created.value[1],
                              updated_at |-> updated.value[1]])]

\* the URL of the first page of runs and the URLs the API links the later
\* pages under
runs_page_url(repo, k) ==
    DEFAULT_GITHUB_API_URL \o <<"/","r","e","p","o","s","/">> \o parse_repo(repo)[1][1] \o <<"/">>
    \o parse_repo(repo)[1][2] \o <<"/","a","c","t","i","o","n","s","/","r","u","n","s">>
    \o (IF k = 1 THEN <<>> ELSE <<"?","p","a","g","e","=">> \o str_int(k))

\* the page the API serves at a URL, 0 when there is none (a 404)
page_at(server, repo, url) ==
    LET ks == {k \in 1..Len(server.pages) : runs_page_url(repo, k) = url}
    IN  IF ks = {} THEN 0 ELSE CHOOSE k \in ks : TRUE

\* `until and run.created_at > until`: "raise" when one datetime is naive and
\* the other aware (TypeError), else whether the run is skipped
after_until(run, until) ==
    IF until = NoneOpt THEN "no"
    ELSE IF (run.created_at.tzinfo = NoneOpt) # (until[1].tzinfo = NoneOpt) THEN "raise"
    ELSE IF InstantLess(normalize_datetime(until[1]), normalize_datetime(run.created_at))
    THEN "yes" ELSE "no"

GhaIdle ==
    /\ gha_method = "idle"
    /\ gha_repo = <<>>
    /\ gha_run_id = NoneOpt
    /\ gha_run_url = NoneOpt
    /\ gha_until = NoneOpt
    /\ gha_server = <<>>
    /\ gha_pc = "idle"
    /\ gha_requests = <<>>
    /\ gha_url = NoneOpt
    /\ gha_data = <<>>
    /\ gha_j = 0
    /\ gha_s = 0
    /\ gha_yielded = <<>>
    /\ gha_result = NoneOpt
    /\ gha_error = NoneOpt
    /\ gha_demand = 0

\* GitHubActionsAdapter.get_workflow_run
get_workflow_run ==
    /\ gha_pc = "call"
    /\ gha_method = "get_workflow_run"
    /\ LET checked == run_url_of(gha_repo, gha_run_id, gha_run_url)
       IN  IF checked.error # NoneOpt
           THEN /\ gha_error' = checked.error
                /\ gha_pc' = "raised"
                /\ UNCHANGED <<gha_requests, gha_result>>
           ELSE /\ gha_requests' = Append(gha_requests, checked.url)
                /\ IF ~gha_server.ok
                   THEN /\ gha_error' = Some(Raise("HTTPError", <<>>))
                        /\ gha_pc' = "raised"
                        /\ UNCHANGED gha_result
                   ELSE \E now_created, now_updated \in NowValues :
                          LET run == parse_workflow_run(gha_server.run, now_created, now_updated)
                          IN  IF run.raised # ""
                              THEN /\ gha_error' = Some(Raise(run.raised, <<>>))
                                   /\ gha_pc' = "raised"
                                   /\ UNCHANGED gha_result
                              ELSE /\ gha_result' = run.value
                                   /\ gha_pc' = "returned"
                                   /\ UNCHANGED gha_error
    /\ UNCHANGED <<gha_method, gha_repo, gha_run_id, gha_run_url, gha_until, gha_server,
                   gha_url, gha_data, gha_j, gha_s, gha_yielded, gha_demand>>
    /\ UNCHANGED outside_gha

\* get_workflow_logs up to its loop: the checks and the request of the jobs
LogsStart ==
    /\ gha_pc = "call"
    /\ gha_method = "get_workflow_logs"
    /\ LET checked == run_url_of(gha_repo, gha_run_id, gha_run_url)
       IN  IF checked.error # NoneOpt
           THEN /\ gha_error' = checked.error
                /\ gha_pc' = "raised"
                /\ UNCHANGED <<gha_requests, gha_data, gha_j>>
           ELSE /\ gha_requests' = Append(gha_requests, checked.url \o <<"/","j","o","b","s">>)
                /\ IF ~gha_server.ok
                   THEN /\ gha_error' = Some(Raise("HTTPError", <<>>))
                        /\ gha_pc' = "raised"
                        /\ UNCHANGED <<gha_data, gha_j>>
                   ELSE /\ gha_data' = gha_server.jobs
                        /\ gha_j' = 1
                        /\ gha_pc' = "job"
                        /\ UNCHANGED gha_error
    /\ UNCHANGED <<gha_method, gha_repo, gha_run_id, gha_run_url, gha_until, gha_server,
                   gha_url, gha_s, gha_yielded, gha_result, gha_demand>>
    /\ UNCHANGED outside_gha

\* _parse_job_logs up to its loop: the entry of the job
LogsYieldJob ==
    /\ gha_pc = "job"
    /\ gha_j <= Len(gha_data)
    /\ \E now \in NowValues :
          LET job == gha_data[gha_j]
              started == parse_datetime(job.started_at, now)
          IN  IF started.raised # ""
              THEN /\ gha_error' = Some(Raise(started.raised, <<>>))
                   /\ gha_pc' = "raised"
                   /\ UNCHANGED <<gha_yielded, gha_s>>
              ELSE /\ gha_yielded' = Append(gha_yielded, status_entry(<<"J","o","b">>, job, started.value[1]))
                   /\ gha_s' = 1
                   /\ gha_pc' = "step"
                   /\ UNCHANGED gha_error
    /\ UNCHANGED <<gha_method, gha_repo, gha_run_id, gha_run_url, gha_until, gha_server,
                   gha_requests, gha_url, gha_data, gha_j, gha_result, gha_demand>>
    /\ UNCHANGED outside_gha

\* _parse_step_logs: the entry of a step of the job
LogsYieldStep ==
    /\ gha_pc = "step"
    /\ gha_s <= Len(gha_data[gha_j].steps)
    /\ \E now \in NowValues :
          LET step == gha_data[gha_j].steps[gha_s]
              started == parse_datetime(step.started_at, now)
          IN  IF started.raised # ""
              THEN /\ gha_error' = Some(Raise(started.raised, <<>>))
                   /\ gha_pc' = "raised"
                   /\ UNCHANGED <<gha_yielded, gha_s>>
              ELSE /\ gha_yielded' = Append(gha_yielded, status_entry(<<"S","t","e","p">>, step, started.value[1]))
                   /\ gha_s' = gha_s + 1
                   /\ UNCHANGED <<gha_error, gha_pc>>
    /\ UNCHANGED <<gha_method, gha_repo, gha_run_id, gha_run_url, gha_until, gha_server,
                   gha_requests, gha_url, gha_data, gha_j, gha_result, gha_demand>>
    /\ UNCHANGED outside_gha

\* the steps of the job are over: the next job
LogsNextJob ==
    /\ gha_pc = "step"
    /\ gha_s > Len(gha_data[gha_j].steps)
    /\ gha_j' = gha_j + 1
    /\ gha_pc' = "job"
    /\ UNCHANGED <<gha_method, gha_repo, gha_run_id, gha_run_url, gha_until, gha_server,
                   gha_requests, gha_url, gha_data, gha_s, gha_yielded, gha_result,
                   gha_error, gha_demand>>
    /\ UNCHANGED outside_gha

\* the jobs are over: the generator is exhausted
LogsEnd ==
    /\ gha_pc = "job"
    /\ gha_j > Len(gha_data)
    /\ gha_pc' = "exhausted"
    /\ UNCHANGED <<gha_method, gha_repo, gha_run_id, gha_run_url, gha_until, gha_server,
                   gha_requests, gha_url, gha_data, gha_j, gha_s, gha_yielded,
                   gha_result, gha_error, gha_demand>>
    /\ UNCHANGED outside_gha

\* get_workflow_runs up to its loop, run by the first next() of the consumer
RunsStart ==
    /\ gha_pc = "call"
    /\ gha_method = "get_workflow_runs"
    /\ gha_demand' = gha_demand + 1
    /\ IF parse_repo(gha_repo) = NoneOpt
       THEN /\ gha_error' = Some(Raise("ValueError",
                   <<"I","n","v","a","l","i","d"," ","r","e","p","o"," ","f","o","r","m","a","t",":"," ">> \o gha_repo \o <<"."," ","E","x","p","e","c","t","e","d"," ","'","o","w","n","e","r","/","r","e","p","o","'">>))
            /\ gha_pc' = "raised"
            /\ UNCHANGED gha_url
       ELSE /\ gha_url' = Some(runs_page_url(gha_repo, 1))
            /\ gha_pc' = "fetch"
            /\ UNCHANGED gha_error
    /\ UNCHANGED <<gha_method, gha_repo, gha_run_id, gha_run_url, gha_until, gha_server,
                   gha_requests, gha_data, gha_j, gha_s, gha_yielded, gha_result>>
    /\ UNCHANGED outside_gha

\* `while url:` the request of a page
RunsRequest ==
    /\ gha_pc = "fetch"
    /\ gha_requests' = Append(gha_requests, gha_url[1])
    /\ LET k == page_at(gha_server, gha_repo, gha_url[1])
       IN  IF k = 0
           THEN /\ gha_error' = Some(Raise("HTTPError", <<>>))
                /\ gha_pc' = "raised"
                /\ UNCHANGED <<gha_data, gha_j>>
           ELSE /\ gha_data' = [runs |-> gha_server.pages[k].runs,
                                next |-> IF gha_server.pages[k].has_next
                                         THEN Some(runs_page_url(gha_repo, k + 1))
                                         ELSE NoneOpt]
                /\ gha_j' = 1
                /\ gha_pc' = "page"
                /\ UNCHANGED gha_error
    /\ UNCHANGED <<gha_method, gha_repo, gha_run_id, gha_run_url, gha_until, gha_server,
                   gha_url, gha_s, gha_yielded, gha_result, gha_demand>>
    /\ UNCHANGED outside_gha

\* a run of the page whose date does not parse or does not compare
RunsRaise ==
    /\ gha_pc = "page"
    /\ gha_j <= Len(gha_data.runs)
    /\ \E now_created, now_updated \in NowValues :
          LET run == parse_workflow_run(gha_data.runs[gha_j], now_created, now_updated)
          IN  /\ run.raised # "" \/ after_until(run.value[1], gha_until) = "raise"
              /\ gha_error' = Some(Raise(IF run.raised # "" THEN run.raised ELSE "TypeError", <<>>))
    /\ gha_pc' = "raised"
    /\ UNCHANGED <<gha_method, gha_repo, gha_run_id, gha_run_url, gha_until, gha_server,
                   gha_requests, gha_url, gha_data, gha_j, gha_s, gha_yielded,
                   gha_result, gha_demand>>
    /\ UNCHANGED outside_gha

\* a run created after until: `continue`
RunsSkip ==
    /\ gha_pc = "page"
    /\ gha_j <= Len(gha_data.runs)
    /\ \E now_created, now_updated \in NowValues :
          LET run == parse_workflow_run(gha_data.runs[gha_j], now_created, now_updated)
          IN  /\ run.raised = ""
              /\ after_until(run.value[1], gha_until) = "yes"
    /\ gha_j' = gha_j + 1
    /\ UNCHANGED <<gha_method, gha_repo, gha_run_id, gha_run_url, gha_until, gha_server,
                   gha_pc, gha_requests, gha_url, gha_data, gha_s, gha_yielded,
                   gha_result, gha_error, gha_demand>>
    /\ UNCHANGED outside_gha

\* a bug: the page that follows is requested as soon as the last run of a
\* page is yielded
RunsYield_Prefetch ==
    /\ gha_pc = "page"
    /\ gha_j <= Len(gha_data.runs)
    /\ \E now_created, now_updated \in NowValues :
          LET run == parse_workflow_run(gha_data.runs[gha_j], now_created, now_updated)
          IN  /\ run.raised = ""
              /\ after_until(run.value[1], gha_until) = "no"
              /\ gha_yielded' = Append(gha_yielded, run.value[1])
    /\ gha_j' = gha_j + 1
    /\ gha_pc' = "suspended"
    /\ gha_requests' = IF gha_j = Len(gha_data.runs) /\ gha_data.next # NoneOpt
                       THEN Append(gha_requests, gha_data.next[1]) ELSE gha_requests
    /\ UNCHANGED <<gha_method, gha_repo, gha_run_id, gha_run_url, gha_until, gha_server,
                   gha_url, gha_data, gha_s, gha_result, gha_error, gha_demand>>
    /\ UNCHANGED outside_gha

\* `yield run`: the generator is suspended until the consumer asks again
RunsYield ==
    /\ gha_pc = "page"
    /\ gha_j <= Len(gha_data.runs)
    /\ \E now_created, now_updated \in NowValues :
          LET run == parse_workflow_run(gha_data.runs[gha_j], now_created, now_updated)
          IN  /\ run.raised = ""
              /\ after_until(run.value[1], gha_until) = "no"
              /\ gha_yielded' = Append(gha_yielded, run.value[1])
    /\ gha_j' = gha_j + 1
    /\ gha_pc' = "suspended"
    /\ UNCHANGED <<gha_method, gha_repo, gha_run_id, gha_run_url, gha_until, gha_server,
                   gha_requests, gha_url, gha_data, gha_s, gha_result, gha_error,
                   gha_demand>>
    /\ UNCHANGED outside_gha

\* the consumer asks for the next run: the generator resumes after its yield
RunsResume ==
    /\ gha_pc = "suspended"
    /\ gha_demand' = gha_demand + 1
    /\ gha_pc' = "page"
    /\ UNCHANGED <<gha_method, gha_repo, gha_run_id, gha_run_url, gha_until, gha_server,
                   gha_requests, gha_url, gha_data, gha_j, gha_s, gha_yielded,
                   gha_result, gha_error>>
    /\ UNCHANGED outside_gha

\* the consumer stops iterating: the suspended generator is never resumed
RunsStop ==
    /\ gha_pc = "suspended"
    /\ gha_pc' = "closed"
    /\ UNCHANGED <<gha_method, gha_repo, gha_run_id, gha_run_url, gha_until, gha_server,
                   gha_requests, gha_url, gha_data, gha_j, gha_s, gha_yielded,
                   gha_result, gha_error, gha_demand>>
    /\ UNCHANGED outside_gha

\* the runs of the page are over: the "next" link, or the end
RunsNextPage ==
    /\ gha_pc = "page"
    /\ gha_j > Len(gha_data.runs)
    /\ gha_url' = gha_data.next
    /\ gha_pc' = IF gha_data.next = NoneOpt THEN "exhausted" ELSE "fetch"
    /\ UNCHANGED <<gha_method, gha_repo, gha_run_id, gha_run_url, gha_until, gha_server,
                   gha_requests, gha_data, gha_j, gha_s, gha_yielded, gha_result,
                   gha_error, gha_demand>>
    /\ UNCHANGED outside_gha

GhaNext ==
    \/ get_workflow_run
    \/ LogsStart
    \/ LogsYieldJob
    \/ LogsYieldStep
    \/ LogsNextJob
    \/ LogsEnd
    \/ RunsStart
    \/ RunsRequest
    \/ RunsRaise
    \/ RunsSkip
    \/ RunsYield
    \/ RunsResume
    \/ RunsStop
    \/ RunsNextPage

----------------------------------------------------------------------------
(* The calls of the adapter and what the API serves                        *)

MaxJobs == 2
MaxPages == 2

StepCheckout ==
    [name |-> <<"C","h","e","c","k","o","u","t">>, status |-> <<"c","o","m","p","l","e","t","e","d">>, conclusion |-> JsonStr(<<"s","u","c","c","e","s","s">>),
     started_at |-> JsonStr(<<"2","0","2","6","-","0","2","-","2","0","T","1","4",":","3","0",":","0","5","Z">>)]
StepTest ==
    [name |-> <<"T","e","s","t">>, status |-> <<"c","o","m","p","l","e","t","e","d">>, conclusion |-> JsonStr(<<"f","a","i","l","u","r","e">>),
     started_at |-> JsonStr(<<"2","0","2","6","-","0","2","-","2","0","T","1","4",":","3","1",":","0","0",".","0","0","0","+","0","1",":","0","0">>)]
StepCancelled ==
    [name |-> <<"P","u","b","l","i","s","h">>, status |-> <<"c","o","m","p","l","e","t","e","d">>, conclusion |-> JsonStr(<<"c","a","n","c","e","l","l","e","d">>),
     started_at |-> Absent]
StepPending ==
    [name |-> <<"D","e","p","l","o","y">>, status |-> <<"q","u","e","u","e","d">>, conclusion |-> JsonNull,
     started_at |-> JsonNull]

JobBuild ==
    [name |-> <<"B","u","i","l","d">>, status |-> <<"c","o","m","p","l","e","t","e","d">>, conclusion |-> JsonStr(<<"f","a","i","l","u","r","e">>),
     started_at |-> JsonStr(<<"2","0","2","6","-","0","2","-","2","0","T","1","4",":","3","0",":","0","0","Z">>), steps |-> <<StepCheckout, StepTest>>]
JobLint ==
    [name |-> <<"L","i","n","t">>, status |-> <<"c","o","m","p","l","e","t","e","d">>, conclusion |-> JsonStr(<<"F","a","i","l","u","r","e">>),
     started_at |-> JsonStr(<<"2","0","2","6","-","0","2","-","2","0","T","1","4",":","3","0",":","0","1","Z">>), steps |-> <<>>]
JobCancelled ==
    [name |-> <<"R","e","l","e","a","s","e">>, status |-> <<"c","o","m","p","l","e","t","e","d">>, conclusion |-> JsonStr(<<"c","a","n","c","e","l","l","e","d">>),
     started_at |-> Absent, steps |-> <<StepCancelled>>]
JobRunning ==
    [name |-> <<"D","e","p","l","o","y">>, status |-> <<"i","n","_","p","r","o","g","r","e","s","s">>, conclusion |-> Absent,
     started_at |-> JsonStr(<<"2","0","2","6","-","0","2","-","2","0","T","1","4",":","3","2",":","0","0","Z">>), steps |-> <<StepCheckout, StepPending>>]
JobQueued ==
    [name |-> <<"N","o","t","i","f","y">>, status |-> <<"q","u","e","u","e","d">>, conclusion |-> JsonNull,
     started_at |-> JsonStr(<<"2","0","2","6","-","0","2","-","2","0","T","1","4",":","2","9",":","0","0","Z">>), steps |-> <<>>]

Jobs == { JobBuild, JobLint, JobCancelled, JobRunning, JobQueued }

RunEarly ==
    [id |-> 1, conclusion |-> JsonStr(<<"f","a","i","l","u","r","e">>),
     created_at |-> JsonStr(<<"2","0","2","6","-","0","2","-","2","0","T","1","4",":","3","0",":","0","0","Z">>),
     updated_at |-> JsonStr(<<"2","0","2","6","-","0","2","-","2","0","T","1","4",":","3","5",":","0","0","Z">>)]
RunLate ==
    [id |-> 2, conclusion |-> JsonStr(<<"s","u","c","c","e","s","s">>),
     created_at |-> JsonStr(<<"2","0","2","6","-","0","2","-","2","1","T","0","9",":","0","0",":","0","0","Z">>),
     updated_at |-> JsonStr(<<"2","0","2","6","-","0","2","-","2","1","T","0","9",":","0","5",":","0","0","Z">>)]
RunUndated ==
    [id |-> 3, conclusion |-> JsonNull, created_at |-> Absent,
     updated_at |-> JsonStr(<<"2","0","2","6","-","0","2","-","2","0","T","1","4",":","3","5",":","0","0","Z">>)]

Pages ==
    { [runs |-> r, has_next |-> n] :
         r \in { <<>>, <<RunEarly>>, <<RunLate, RunEarly>>, <<RunUndated, RunLate>> },
         n \in BOOLEAN }

Repos == { <<"o","w","n","e","r","/","r","e","p","o">>, <<"i","n","v","a","l","i","d","-","r","e","p","o">>, <<"o","r","g","/","t","e","a","m","/","r","e","p","o">> }
RunIds == { NoneOpt, Some(42) }
RunUrls ==
    { NoneOpt, Some(<<>>), Some(<<"h","t","t","p","s",":","/","/","g","i","t","h","u","b",".","c","o","m","/","o","w","n","e","r","/","r","e","p","o">>),
      Some(<<"h","t","t","p","s",":","/","/","g","i","t","h","u","b",".","c","o","m","/","o","w","n","e","r","/","r","e","p","o","/","a","c","t","i","o","n","s","/","r","u","n","s","/">>),
      Some(<<"h","t","t","p","s",":","/","/","g","i","t","h","u","b",".","c","o","m","/","o","w","n","e","r","/","r","e","p","o","/","a","c","t","i","o","n","s","/","r","u","n","s","/","0","0","7","/","j","o","b","/","9">>) }
Untils ==
    { NoneOpt,
      Some([year |-> 2026, month |-> 2, day |-> 21, hour |-> 0, minute |-> 0,
            second |-> 0, microsecond |-> 0, tzinfo |-> Some(0)]),
      Some([year |-> 2026, month |-> 2, day |-> 21, hour |-> 0, minute |-> 0,
            second |-> 0, microsecond |-> 0, tzinfo |-> NoneOpt]) }

GhaInit ==
    /\ gha_method \in {"get_workflow_run", "get_workflow_logs", "get_workflow_runs"}
    /\ gha_repo \in Repos
    /\ IF gha_method = "get_workflow_runs"
       THEN /\ gha_run_id = NoneOpt
            /\ gha_run_url = NoneOpt
            /\ gha_until \in Untils
            /\ \E pages \in SeqsUpTo(Pages, MaxPages) :
                  gha_server = [ok |-> TRUE, run |-> RunEarly, jobs |-> <<>>, pages |-> pages]
       ELSE /\ gha_run_id \in RunIds
            /\ gha_run_url \in RunUrls
            /\ gha_until = NoneOpt
            /\ \E ok \in BOOLEAN, run \in {RunEarly, RunUndated},
                  jobs \in SeqsUpTo(Jobs, MaxJobs) :
                  /\ gha_method = "get_workflow_run" => jobs = <<>>
                  /\ gha_method = "get_workflow_logs" => run = RunEarly
                  /\ gha_server = [ok |-> ok, run |-> run, jobs |-> jobs, pages |-> <<>>]
    /\ gha_pc = "call"
    /\ gha_requests = <<>>
    /\ gha_url = NoneOpt
    /\ gha_data = <<>>
    /\ gha_j = 0
    /\ gha_s = 0
    /\ gha_yielded = <<>>
    /\ gha_result = NoneOpt
    /\ gha_error = NoneOpt
    /\ gha_demand = 0

----------------------------------------------------------------------------
(* sources/local_git.py                                                    *)
(* The repository is a record: whether the path exists and holds .git, the *)
(* exit status and stderr of `git log`, and the history, most recent       *)
(* commit first. A commit of the history holds the fields git prints and   *)
(* the exit status and output of `git show` for it.                        *)

DEFAULT_TIMEZONE == <<"U","T","C">>
LOG_FORMAT == <<"%","H","|","%","a","n","|","%","a","i","|","%","s","|","%","D">>

\* Path(repo_path or DEFAULT_GIT_REPO_PATH), as str
Path(repo_path) ==
    IF repo_path = NoneOpt \/ repo_path[1] = <<>> THEN DEFAULT_GIT_REPO_PATH
    ELSE repo_path[1]

\* a bug: the .git entry is not looked for
validate_repository_ExistsOnly(path, repo) ==
    IF ~repo.exists THEN Some(ValueError(<<"R","e","p","o","s","i","t","o","r","y"," ","n","o","t"," ","f","o","u","n","d"," ","a","t"," ">> \o path))
    ELSE NoneOpt

\* _validate_repository: the exception raised, if any
validate_repository(path, repo) ==
    IF ~repo.exists THEN Some(ValueError(<<"R","e","p","o","s","i","t","o","r","y"," ","n","o","t"," ","f","o","u","n","d"," ","a","t"," ">> \o path))
    ELSE IF ~repo.has_git
    THEN Some(ValueError(<<"N","o","t"," ","a"," ","v","a","l","i","d"," ","g","i","t"," ","r","e","p","o","s","i","t","o","r","y"," ","a","t"," ">> \o path))
    ELSE NoneOpt

\* _build_git_command with the environment of _get_env_with_timezone
build_git_command(path, args) ==
    [argv |-> << <<"g","i","t">>, <<"-","C">>, path, <<"l","o","g">>, <<"-","-","p","r","e","t","t","y","=","f","o","r","m","a","t",":">> \o LOG_FORMAT >>
              \o (IF args.branch # NoneOpt /\ args.branch[1] # <<>>
                  THEN <<args.branch[1]>> ELSE <<>>)
              \o (IF args.until # NoneOpt
                  THEN << <<"-","-","u","n","t","i","l","=">> \o isoformat(args.until[1]) >> ELSE <<>>)
              \o (IF args.since # NoneOpt
                  THEN << <<"-","-","s","i","n","c","e","=">> \o isoformat(args.since[1]) >> ELSE <<>>),
     TZ |-> Some(DEFAULT_TIMEZONE)]

\* the command of _get_commit_diff, run in the caller's environment
show_command(path, commit_hash) ==
    [argv |-> << <<"g","i","t">>, <<"-","C">>, path, <<"s","h","o","w">>, commit_hash,
                 <<"-","-","p","r","e","t","t","y","=","f","o","r","m","a","t",":">>, <<"-","-","p","a","t","c","h">> >>,
     TZ |-> NoneOpt]

\* what `git log` prints for one commit in _LOG_FORMAT
log_line(c) ==
    c.hash \o <<"|">> \o c.author \o <<"|">> \o c.date \o <<"|">> \o c.subject
    \o <<"|">> \o c.refs

\* the standard output of `git log`: the lines of the history, a line break
\* between them
RECURSIVE log_stdout(_)
log_stdout(commits) ==
    IF commits = <<>> THEN <<>>
    ELSE IF Len(commits) = 1 THEN log_line(commits[1])
    ELSE log_line(commits[1]) \o <<"\n">> \o log_stdout(Tail(commits))

\* str.split("|", maxsplit)
RECURSIVE split_pipe(_, _)
split_pipe(s, maxsplit) ==
    LET bars == {i \in 1..Len(s) : s[i] = "|"}
        b == CHOOSE i \in bars : \A j \in bars : i <= j
    IN  IF maxsplit = 0 \/ bars = {} THEN <<s>>
        ELSE <<SubSeq(s, 1, b - 1)>> \o split_pipe(SubSeq(s, b + 1, Len(s)), maxsplit - 1)

\* _parse_date; now is the value of datetime.now()
parse_date(date_str, now) ==
    IF fromisoformat(replace_Z(date_str)) # NoneOpt
    THEN fromisoformat(replace_Z(date_str))[1]
    ELSE now

\* `git show` of a hash in the repository: its exit status and output
git_show(repo, commit_hash) ==
    LET found == {i \in 1..Len(repo.commits) : repo.commits[i].hash = commit_hash}
    IN  IF found = {} THEN [exit |-> 128, stdout |-> <<>>]
        ELSE LET c == repo.commits[CHOOSE i \in found : TRUE]
             IN  [exit |-> c.show_exit, stdout |-> IF c.show_exit = 0 THEN c.patch ELSE <<>>]

\* _get_commit_diff: None for a failing command and for an empty output
get_commit_diff(repo, commit_hash) ==
    LET result == git_show(repo, commit_hash)
    IN  IF result.exit # 0 \/ result.stdout = <<>> THEN NoneOpt ELSE Some(result.stdout)

\* _parse_commit_line: None for a line of fewer than four fields
parse_commit_line(line, repo, now) ==
    LET parts == split_pipe(line, 4)
    IN  IF Len(parts) < 4 THEN NoneOpt
        ELSE Some([hash |-> parts[1], author |-> parts[2],
                   date |-> parse_date(parts[3], now), message |-> parts[4],
                   diff |-> get_commit_diff(repo, parts[1])])

GitIdle ==
    /\ git_repo_path = <<>>
    /\ git_args = [branch |-> NoneOpt, since |-> NoneOpt, until |-> NoneOpt]
    /\ git_repo = [exists |-> FALSE, has_git |-> FALSE, log_exit |-> 0,
                   stderr |-> <<>>, commits |-> <<>>]
    /\ git_call = 0
    /\ git_pc = "idle"
    /\ git_cmds = <<>>
    /\ git_lines = <<>>
    /\ git_k = 0
    /\ git_yielded = <<>>
    /\ git_error = NoneOpt
    /\ git_first = NoneOpt

\* get_commits up to the raise of _validate_repository
GitInvalid ==
    /\ git_pc = "call"
    /\ validate_repository(git_repo_path, git_repo) # NoneOpt
    /\ git_error' = validate_repository(git_repo_path, git_repo)
    /\ git_pc' = "raised"
    /\ UNCHANGED <<git_repo_path, git_args, git_repo, git_call, git_cmds,
                   git_lines, git_k, git_yielded, git_first>>
    /\ UNCHANGED outside_git

\* get_commits up to a log command that exits with a non-zero status
GitLogFails ==
    /\ git_pc = "call"
    /\ validate_repository(git_repo_path, git_repo) = NoneOpt
    /\ git_repo.log_exit # 0
    /\ git_cmds' = Append(git_cmds, build_git_command(git_repo_path, git_args))
    /\ git_error' = Some(ValueError(<<"E","r","r","o","r"," ","e","x","e","c","u","t","i","n","g"," ","g","i","t"," ","c","o","m","m","a","n","d",":"," ">> \o git_repo.stderr))
    /\ git_pc' = "raised"
    /\ UNCHANGED <<git_repo_path, git_args, git_repo, git_call, git_lines, git_k,
                   git_yielded, git_first>>
    /\ UNCHANGED outside_git

\* get_commits up to the loop over the lines of the log output
GitLog ==
    /\ git_pc = "call"
    /\ validate_repository(git_repo_path, git_repo) = NoneOpt
    /\ git_repo.log_exit = 0
    /\ git_cmds' = Append(git_cmds, build_git_command(git_repo_path, git_args))
    /\ git_lines' = split_lines(strip(log_stdout(git_repo.commits)))
    /\ git_k' = 1
    /\ git_pc' = "loop"
    /\ UNCHANGED <<git_repo_path, git_args, git_repo, git_call, git_yielded,
                   git_error, git_first>>
    /\ UNCHANGED outside_git

\* the loop passes over an empty line, which starts no command, and over a
\* line that is no commit
GitSkipLine ==
    /\ git_pc = "loop"
    /\ git_k <= Len(git_lines)
    /\ (git_lines[git_k] = <<>> \/ Len(split_pipe(git_lines[git_k], 4)) < 4)
    /\ git_k' = git_k + 1
    /\ UNCHANGED <<git_repo_path, git_args, git_repo, git_call, git_pc, git_cmds,
                   git_lines, git_yielded, git_error, git_first>>
    /\ UNCHANGED outside_git

\* a bug: a failing diff command ends the call with an error
GitYield_DiffRaises ==
    /\ git_pc = "loop"
    /\ git_k <= Len(git_lines)
    /\ git_lines[git_k] # <<>>
    /\ Len(split_pipe(git_lines[git_k], 4)) >= 4
    /\ \E now \in NowValues :
          LET commit == parse_commit_line(git_lines[git_k], git_repo, now)[1]
              failed == git_show(git_repo, commit.hash).exit # 0
          IN  /\ git_yielded' = IF failed THEN git_yielded ELSE Append(git_yielded, commit)
              /\ git_error' = IF failed
                              THEN Some(ValueError(<<"E","r","r","o","r"," ","e","x","e","c","u","t","i","n","g"," ","g","i","t"," ","c","o","m","m","a","n","d",":"," ">>))
                              ELSE git_error
              /\ git_pc' = IF failed THEN "raised" ELSE git_pc
              /\ git_cmds' = Append(git_cmds, show_command(git_repo_path, commit.hash))
    /\ git_k' = git_k + 1
    /\ UNCHANGED <<git_repo_path, git_args, git_repo, git_call, git_lines, git_first>>
    /\ UNCHANGED outside_git

\* the loop parses a line, fetches the diff of its commit and yields it
GitYield ==
    /\ git_pc = "loop"
    /\ git_k <= Len(git_lines)
    /\ git_lines[git_k] # <<>>
    /\ Len(split_pipe(git_lines[git_k], 4)) >= 4
    /\ \E now \in NowValues :
          LET commit == parse_commit_line(git_lines[git_k], git_repo, now)[1]
          IN  /\ git_yielded' = Append(git_yielded, commit)
              /\ git_cmds' = Append(git_cmds, show_command(git_repo_path, commit.hash))
    /\ git_k' = git_k + 1
    /\ UNCHANGED <<git_repo_path, git_args, git_repo, git_call, git_pc, git_lines,
                   git_error, git_first>>
    /\ UNCHANGED outside_git

\* the lines are used up and the generator ends
GitEnd ==
    /\ git_pc = "loop"
    /\ git_k > Len(git_lines)
    /\ git_pc' = "exhausted"
    /\ UNCHANGED <<git_repo_path, git_args, git_repo, git_call, git_cmds,
                   git_lines, git_k, git_yielded, git_error, git_first>>
    /\ UNCHANGED outside_git

\* the caller keeps the outcome and calls get_commits again with the same
\* arguments; the repository has not changed
GitCallAgain ==
    /\ git_pc \in {"raised", "exhausted"}
    /\ git_call = 1
    /\ git_first' = Some([yielded |-> git_yielded, error |-> git_error,
                          cmds |-> git_cmds])
    /\ git_call' = 2
    /\ git_pc' = "call"
    /\ git_cmds' = <<>>
    /\ git_lines' = <<>>
    /\ git_k' = 0
    /\ git_yielded' = <<>>
    /\ git_error' = NoneOpt
    /\ UNCHANGED <<git_repo_path, git_args, git_repo>>
    /\ UNCHANGED outside_git

GitNext ==
    \/ GitInvalid
    \/ GitLogFails
    \/ GitLog
    \/ GitSkipLine
    \/ GitYield
    \/ GitEnd
    \/ GitCallAgain

MaxCommits == 2

\* commits of a history
CommitFix ==
    [hash |-> <<"a","1","f","3">>, author |-> <<"A","n","n">>, date |-> <<"2","0","2","4","-","0","1","-","1","5"," ","1","0",":","3","0",":","0","0"," ","+","0","0","0","0">>,
     subject |-> <<"f","i","x"," ","l","o","g","i","n">>, refs |-> <<"H","E","A","D"," ","-",">"," ","m","a","i","n">>,
     show_exit |-> 0, patch |-> <<"d","i","f","f"," ","-","-","g","i","t"," ","a","/","a","p","p",".","p","y"," ","b","/","a","p","p",".","p","y">>]
\* an author name with the separator of the format in it
CommitPipedAuthor ==
    [hash |-> <<"b","2","e","4">>, author |-> <<"A","n","n","|","B","o","b">>, date |-> <<"2","0","2","4","-","0","1","-","1","4"," ","0","9",":","0","0",":","0","0"," ","+","0","0","0","0">>,
     subject |-> <<"a","d","d"," ","a","p","i">>, refs |-> <<>>,
     show_exit |-> 0, patch |-> <<"d","i","f","f"," ","-","-","g","i","t"," ","a","/","a","p","i",".","p","y"," ","b","/","a","p","i",".","p","y">>]
\* a subject with the separator in it
CommitPipedSubject ==
    [hash |-> <<"c","3","d","5">>, author |-> <<"C","a","r","l">>, date |-> <<"2","0","2","4","-","0","1","-","1","3"," ","0","8",":","0","0",":","0","0"," ","+","0","1","0","0">>,
     subject |-> <<"a","|","b">>, refs |-> <<"t","a","g",":"," ","v","1">>,
     show_exit |-> 0, patch |-> <<"d","i","f","f"," ","-","-","g","i","t"," ","a","/","d","b",".","s","q","l"," ","b","/","d","b",".","s","q","l">>]
\* a commit without changes
CommitEmpty ==
    [hash |-> <<"d","4","c","6">>, author |-> <<"D","e","e">>, date |-> <<"2","0","2","4","-","0","1","-","1","2"," ","0","7",":","0","0",":","0","0"," ","+","0","0","0","0">>,
     subject |-> <<"e","m","p","t","y">>, refs |-> <<>>, show_exit |-> 0, patch |-> <<>>]
\* a commit whose object cannot be read
CommitUnreadable ==
    [hash |-> <<"e","5","b","7">>, author |-> <<"E","v","e">>, date |-> <<"2","0","2","4","-","0","1","-","1","1"," ","0","6",":","0","0",":","0","0"," ","+","0","0","0","0">>,
     subject |-> <<"b","i","g"," ","f","i","l","e">>, refs |-> <<>>, show_exit |-> 128,
     patch |-> <<"d","i","f","f"," ","-","-","g","i","t"," ","a","/","b","i","g"," ","b","/","b","i","g">>]

Commits == {CommitFix, CommitPipedAuthor, CommitPipedSubject, CommitEmpty, CommitUnreadable}

\* histories of distinct commits
Histories ==
    {h \in SeqsUpTo(Commits, MaxCommits) : \A i, j \in DOMAIN h : h[i] = h[j] => i = j}

Repositories ==
    { [exists |-> FALSE, has_git |-> FALSE, log_exit |-> 0, stderr |-> <<>>,
       commits |-> <<>>],
      [exists |-> TRUE, has_git |-> FALSE, log_exit |-> 0, stderr |-> <<>>,
       commits |-> <<>>] }
    \cup { [exists |-> TRUE, has_git |-> TRUE, log_exit |-> 128,
            stderr |-> <<"f","a","t","a","l",":"," ","b","a","d"," ","r","e","v","i","s","i","o","n">>, commits |-> h] :
           h \in {<<>>, <<CommitFix>>, <<CommitUnreadable, CommitFix>>} }
    \cup { [exists |-> TRUE, has_git |-> TRUE, log_exit |-> 0, stderr |-> <<>>,
            commits |-> h] : h \in Histories }

RepoPaths == { NoneOpt, Some(<<"/","s","r","v","/","a","p","p">>) }

GitArgs ==
    { [branch |-> NoneOpt, since |-> NoneOpt, until |-> NoneOpt],
      [branch |-> Some(<<"m","a","i","n">>), since |-> NoneOpt, until |-> NoneOpt],
      [branch |-> NoneOpt,
       since |-> Some([year |-> 2024, month |-> 1, day |-> 1, hour |-> 0, minute |-> 0,
                       second |-> 0, microsecond |-> 0, tzinfo |-> NoneOpt]),
       until |-> Some([year |-> 2024, month |-> 2, day |-> 1, hour |-> 0, minute |-> 0,
                       second |-> 0, microsecond |-> 0, tzinfo |-> NoneOpt])] }

GitInit ==
    /\ git_repo_path \in {Path(p) : p \in RepoPaths}
    /\ git_args \in GitArgs
    /\ git_repo \in Repositories
    /\ git_call = 1
    /\ git_pc = "call"
    /\ git_cmds = <<>>
    /\ git_lines = <<>>
    /\ git_k = 0
    /\ git_yielded = <<>>
    /\ git_error = NoneOpt
    /\ git_first = NoneOpt

----------------------------------------------------------------------------
(* tools/git_search_tool.py                                                *)
(* The repository is a record: whether the path exists and holds .git,     *)
(* whether a git executable is found, the exit status and stderr git log   *)
(* gives whatever its arguments, and the history, most recent commit       *)
(* first; a commit holds the fields git prints and its changed files.      *)
(* The body of _run gives an outcome: the text returned, or the exception  *)
(* raised inside the try block.                                            *)

DEFAULT_MAX_COMMITS == 5
GIT_SHORT_HASH_LENGTH == 8
MAX_FILES_TO_DISPLAY == 5
GIT_LOG_FORMAT == <<"%","H","|","%","a","n","|","%","a","i","|","%","s">>

\* str(n) for an int
str_of_int(n) == IF n < 0 THEN <<"-">> \o str_int(0 - n) ELSE str_int(n)

\* the text of a risk level
RiskText ==
    [r \in {RISK_LEVEL_HIGH, RISK_LEVEL_MEDIUM, RISK_LEVEL_LOW} |->
        IF r = RISK_LEVEL_HIGH THEN <<"H","I","G","H">>
        ELSE IF r = RISK_LEVEL_MEDIUM THEN <<"M","E","D","I","U","M">> ELSE <<"L","O","W">>]

\* a bug: the number of commits is not limited
git_log_command_NoLimit(repo_path, timestamp, max_commits) ==
    << <<"g","i","t">>, <<"-","C">>, repo_path, <<"l","o","g">>,
       <<"-","-","p","r","e","t","t","y","=","f","o","r","m","a","t",":">> \o GIT_LOG_FORMAT, <<"-","-","b","e","f","o","r","e","=">> \o timestamp >>

\* cmd of _run
git_log_command(repo_path, timestamp, max_commits) ==
    << <<"g","i","t">>, <<"-","C">>, repo_path, <<"l","o","g">>, <<"-">> \o str_of_int(max_commits),
       <<"-","-","p","r","e","t","t","y","=","f","o","r","m","a","t",":">> \o GIT_LOG_FORMAT, <<"-","-","b","e","f","o","r","e","=">> \o timestamp >>

\* files_cmd of _get_changed_files
git_show_command(repo_path, commit_hash) ==
    << <<"g","i","t">>, <<"-","C">>, repo_path, <<"s","h","o","w">>, <<"-","-","n","a","m","e","-","o","n","l","y">>, <<"-","-","p","r","e","t","t","y","=","f","o","r","m","a","t",":">>,
       commit_hash >>

\* git log reads -<n> as the greatest number of commits to print
IsLimit(arg) == Len(arg) >= 2 /\ arg[1] = "-" /\ DigitsAt(arg, 2, Len(arg) - 1)

\* git log knows no option --<n>
IsUnknownOption(arg) ==
    Len(arg) >= 3 /\ arg[1] = "-" /\ arg[2] = "-" /\ DigitsAt(arg, 3, Len(arg) - 2)

\* the date of --before=<date>; a date git cannot read is taken as now
BeforeDate(argv) ==
    LET hits == {i \in 1..Len(argv) : StartsAt(argv[i], <<"-","-","b","e","f","o","r","e","=">>, 1)}
    IN  IF hits = {} THEN NoneOpt
        ELSE LET arg == argv[CHOOSE i \in hits : TRUE]
             IN  fromisoformat(replace_Z(SubSeq(arg, 10, Len(arg))))

\* the commit is not later than the date, offsets taken into account (TZ=UTC)
CommittedBefore(c, date) ==
    \/ date = NoneOpt
    \/ fromisoformat(c.date) = NoneOpt
    \/ ~InstantLess(normalize_datetime(date[1]), normalize_datetime(fromisoformat(c.date)[1]))

\* the elements of a sequence that satisfy a test, in order
RECURSIVE SelectCommits(_, _)
SelectCommits(commits, date) ==
    IF commits = <<>> THEN <<>>
    ELSE (IF CommittedBefore(Head(commits), date) THEN <<Head(commits)>> ELSE <<>>)
         \o SelectCommits(Tail(commits), date)

\* what git log prints for one commit in GIT_LOG_FORMAT
tool_log_line(c) ==
    c.hash \o <<"|">> \o c.author \o <<"|">> \o c.date \o <<"|">> \o c.subject

\* subprocess.run of the log command: the exit status, stdout and stderr
git_log_run(repo, argv) ==
    LET limits == {i \in 1..Len(argv) : IsLimit(argv[i])}
        shown == SelectCommits(repo.commits, BeforeDate(argv))
        n == IF limits = {} THEN Len(shown)
             ELSE LET arg == argv[CHOOSE i \in limits : TRUE]
                      m == Number(arg, 2, Len(arg) - 1)
                  IN  IF m < Len(shown) THEN m ELSE Len(shown)
        bad == {i \in 1..Len(argv) : IsUnknownOption(argv[i])}
    IN  IF bad # {}
        THEN [exit |-> 128, stdout |-> <<>>,
              stderr |-> <<"f","a","t","a","l",":"," ","u","n","r","e","c","o","g","n","i","z","e","d"," ","a","r","g","u","m","e","n","t",":"," ">> \o argv[CHOOSE i \in bad : TRUE]
                         \o <<"\n">>]
        ELSE IF repo.log_exit # 0
        THEN [exit |-> repo.log_exit, stdout |-> <<>>, stderr |-> repo.stderr]
        ELSE [exit |-> 0, stderr |-> <<>>,
              stdout |-> join_lines([i \in 1..n |-> tool_log_line(shown[i])])]

\* _get_changed_files: the non-empty lines of git show --name-only
get_changed_files(repo, commit_hash) ==
    LET found == {i \in 1..Len(repo.commits) : repo.commits[i].hash = commit_hash}
        stdout == IF found = {} THEN <<>>
                  ELSE join_lines(repo.commits[CHOOSE i \in found : TRUE].files)
                       \o <<"\n">>
        pieces == split_lines(strip(stdout))
    IN  SelectSeq(pieces, LAMBDA f : f # <<>>)

\* _assess_risk: the value returned by the steps AssessRisk*
assess_risk(fs, msg) ==
    IF \E i \in 1..Len(fs) : ContainsAny(lower(fs[i]), HIGH_RISK_PATTERNS)
    THEN RISK_LEVEL_HIGH
    ELSE IF \E i \in 1..Len(fs) : ContainsAny(lower(fs[i]), MEDIUM_RISK_PATTERNS)
    THEN RISK_LEVEL_MEDIUM
    ELSE IF ContainsAny(lower(msg), HIGH_RISK_KEYWORDS) THEN RISK_LEVEL_HIGH
    ELSE RISK_LEVEL_LOW

\* the dictionary _run appends for one line of the log output
commit_of_line(repo, line) ==
    LET parts == split_pipe(line, 3)
        changed_files == get_changed_files(repo, parts[1])
    IN  [hash |-> SubSeq(parts[1], 1, IF Len(parts[1]) < GIT_SHORT_HASH_LENGTH
                                       THEN Len(parts[1]) ELSE GIT_SHORT_HASH_LENGTH),
         author |-> parts[2], date |-> parts[3], message |-> parts[4],
         files_changed |-> changed_files,
         risk_level |-> assess_risk(changed_files, parts[4])]

\* _format_commit_output without the slice [:MAX_FILES_TO_DISPLAY]
commit_block_NoSlice(idx, commit) ==
    LET n == Len(commit.files_changed)
    IN  << <<"\n">> \o str_int(idx) \o <<"."," ","C","o","m","m","i","t"," ">> \o commit.hash,
           <<" "," "," ","A","u","t","h","o","r",":"," ">> \o commit.author,
           <<" "," "," ","D","a","t","e",":"," ">> \o commit.date,
           <<" "," "," ","M","e","s","s","a","g","e",":"," ">> \o commit.message,
           <<" "," "," ","R","i","s","k"," ","L","e","v","e","l",":"," ">> \o RiskText[commit.risk_level],
           <<" "," "," ","F","i","l","e","s"," ","C","h","a","n","g","e","d"," ","(">> \o str_int(n) \o <<")",":">> >>
        \o [i \in 1..n |-> <<" "," "," "," "," ","-"," ">> \o commit.files_changed[i]]
        \o (IF n > MAX_FILES_TO_DISPLAY
            THEN << <<" "," "," "," "," ",".",".","."," ","a","n","d"," ">> \o str_int(n - MAX_FILES_TO_DISPLAY) \o <<" ","m","o","r","e">> >>
            ELSE <<>>)

\* the lines _format_commit_output appends for the idx-th commit
commit_block(idx, commit) ==
    LET n == Len(commit.files_changed)
        shown == IF n < MAX_FILES_TO_DISPLAY THEN n ELSE MAX_FILES_TO_DISPLAY
    IN  << <<"\n">> \o str_int(idx) \o <<"."," ","C","o","m","m","i","t"," ">> \o commit.hash,
           <<" "," "," ","A","u","t","h","o","r",":"," ">> \o commit.author,
           <<" "," "," ","D","a","t","e",":"," ">> \o commit.date,
           <<" "," "," ","M","e","s","s","a","g","e",":"," ">> \o commit.message,
           <<" "," "," ","R","i","s","k"," ","L","e","v","e","l",":"," ">> \o RiskText[commit.risk_level],
           <<" "," "," ","F","i","l","e","s"," ","C","h","a","n","g","e","d"," ","(">> \o str_int(n) \o <<")",":">> >>
        \o [i \in 1..shown |-> <<" "," "," "," "," ","-"," ">> \o commit.files_changed[i]]
        \o (IF n > MAX_FILES_TO_DISPLAY
            THEN << <<" "," "," "," "," ",".",".","."," ","a","n","d"," ">> \o str_int(n - MAX_FILES_TO_DISPLAY) \o <<" ","m","o","r","e">> >>
            ELSE <<>>)

RECURSIVE commit_blocks(_, _)
commit_blocks(commits, idx) ==
    IF idx > Len(commits) THEN <<>>
    ELSE commit_block(idx, commits[idx]) \o commit_blocks(commits, idx + 1)

\* _format_commit_output counting from the last index instead of the length
format_commit_output_LastIndex(repo_path, timestamp, commits) ==
    CHOOSE text \in
        {join_lines(output) :
            output \in {<< <<"=","=","="," ","G","i","t"," ","C","o","m","m","i","t"," ","A","n","a","l","y","s","i","s"," ","=","=","=","\n">>,
                           <<"R","e","p","o","s","i","t","o","r","y",":"," ">> \o repo_path,
                           <<"C","o","m","m","i","t","s"," ","b","e","f","o","r","e",":"," ">> \o timestamp,
                           <<"T","o","t","a","l"," ","c","o","m","m","i","t","s"," ","f","o","u","n","d",":"," ">> \o str_int(Len(commits) - 1) \o <<"\n">> >>
                        \o commit_blocks(commits, 1)}} : TRUE

\* _format_commit_output: the list `output`, built once, and its join
format_commit_output(repo_path, timestamp, commits) ==
    CHOOSE text \in
        {join_lines(output) :
            output \in {<< <<"=","=","="," ","G","i","t"," ","C","o","m","m","i","t"," ","A","n","a","l","y","s","i","s"," ","=","=","=","\n">>,
                           <<"R","e","p","o","s","i","t","o","r","y",":"," ">> \o repo_path,
                           <<"C","o","m","m","i","t","s"," ","b","e","f","o","r","e",":"," ">> \o timestamp,
                           <<"T","o","t","a","l"," ","c","o","m","m","i","t","s"," ","f","o","u","n","d",":"," ">> \o str_int(Len(commits)) \o <<"\n">> >>
                        \o commit_blocks(commits, 1)}} : TRUE

\* the exception raised inside a try block
Raised(type, msg, stderr) == [raised |-> type, message |-> msg, stderr |-> stderr, text |-> <<>>]
\* the text returned inside a try block
Returned(text) == [raised |-> "", message |-> <<>>, stderr |-> <<>>, text |-> text]

\* a bug: no except clause
git_search_handlers_NoCatch(outcome) == outcome

\* the except clauses of GitSearchTool._run
git_search_handlers(outcome) ==
    IF outcome.raised = "" THEN outcome
    ELSE IF outcome.raised = "CalledProcessError"
    THEN Returned(<<"E","r","r","o","r"," ","e","x","e","c","u","t","i","n","g"," ","g","i","t"," ","c","o","m","m","a","n","d",":"," ">> \o outcome.stderr)
    ELSE Returned(<<"E","r","r","o","r"," ","s","e","a","r","c","h","i","n","g"," ","g","i","t"," ","c","o","m","m","i","t","s",":"," ">> \o outcome.message)

----------------------------------------------------------------------------
(* tools/log_parser_tool.py                                                *)
(* The log file of the service is a record: whether it exists, whether it  *)
(* can be opened, and its text.                                            *)

MAX_ERROR_MESSAGE_LENGTH == 200

\* Config.LOG_DIRECTORY, under the base directory of the installation
CONFIG_LOG_DIRECTORY == <<"/","a","p","p","/","d","a","t","a","/","l","o","g","s">>

\* Config.LOG_DIRECTORY / f"{service_name}{LOG_FILE_EXTENSION}"
log_file_of(service_name) ==
    CONFIG_LOG_DIRECTORY \o <<"/">> \o service_name \o LOG_FILE_EXTENSION

\* the text of an error category
CategoryText ==
    [c \in {ERROR_CATEGORY_DATABASE, ERROR_CATEGORY_HTTP, ERROR_CATEGORY_NULL_POINTER,
            ERROR_CATEGORY_STACK_TRACE, ERROR_CATEGORY_GENERAL} |->
        IF c = ERROR_CATEGORY_DATABASE THEN <<"D","a","t","a","b","a","s","e">>
        ELSE IF c = ERROR_CATEGORY_HTTP THEN <<"H","T","T","P","/","N","e","t","w","o","r","k">>
        ELSE IF c = ERROR_CATEGORY_NULL_POINTER THEN <<"N","u","l","l","P","o","i","n","t","e","r","/","A","t","t","r","i","b","u","t","e">>
        ELSE IF c = ERROR_CATEGORY_STACK_TRACE THEN <<"E","x","c","e","p","t","i","o","n","/","S","t","a","c","k","T","r","a","c","e">>
        ELSE <<"G","e","n","e","r","a","l">>]

\* ", ".join(parts)
RECURSIVE join_comma(_)
join_comma(parts) ==
    IF Len(parts) = 0 THEN <<>>
    ELSE IF Len(parts) = 1 THEN parts[1]
    ELSE parts[1] \o <<","," ">> \o join_comma(Tail(parts))

\* the two lines _format_analysis_output appends for the idx-th sample
sample_block(idx, error) ==
    << <<"\n">> \o str_int(idx) \o <<"."," ","[">> \o error.timestamp \o <<"]"," ">> \o error.level
         \o <<" ","-"," ">> \o error.service,
       <<" "," "," ">> \o (IF Len(error.message) > MAX_ERROR_MESSAGE_LENGTH
                   THEN SubSeq(error.message, 1, MAX_ERROR_MESSAGE_LENGTH) \o <<".",".",".">>
                   ELSE error.message) >>

RECURSIVE sample_blocks(_, _)
sample_blocks(samples, idx) ==
    IF idx > Len(samples) THEN <<>>
    ELSE sample_block(idx, samples[idx]) \o sample_blocks(samples, idx + 1)

\* _format_analysis_output: the list `output`, built once, and its join;
\* types is analysis["error_types"].keys() in the order of the dictionary
format_analysis_output(service_name, timestamp, analysis, types) ==
    CHOOSE text \in
        {join_lines(output) :
            output \in {<< <<"=","=","="," ","L","o","g"," ","A","n","a","l","y","s","i","s"," ","f","o","r"," ">> \o service_name \o <<" ","=","=","=","\n">>,
                           <<"A","n","a","l","y","s","i","s"," ","P","e","r","i","o","d",":"," ","S","t","a","r","t","i","n","g"," ","f","r","o","m"," ">> \o timestamp,
                           <<"T","o","t","a","l"," ","E","r","r","o","r","s"," ","F","o","u","n","d",":"," ">> \o str_int(analysis.total_errors),
                           <<"F","i","r","s","t"," ","E","r","r","o","r"," ","T","i","m","e","s","t","a","m","p",":"," ">>
                              \o (IF analysis.first_error_timestamp = NoneOpt
                                  THEN <<"N","o","n","e">>
                                  ELSE analysis.first_error_timestamp[1]),
                           <<"\n","A","f","f","e","c","t","e","d"," ","S","e","r","v","i","c","e","s",":"," ">>
                              \o join_comma(analysis.affected_services),
                           <<"\n","E","r","r","o","r"," ","T","y","p","e","s"," ","D","i","s","t","r","i","b","u","t","i","o","n",":">> >>
                        \o [i \in 1..Len(types) |->
                               <<" "," ","-"," ">> \o CategoryText[types[i]] \o <<":"," ">>
                               \o str_int(analysis.error_types[types[i]])
                               \o <<" ","o","c","c","u","r","r","e","n","c","e","s">>]
                        \o << <<"\n","S","a","m","p","l","e"," ","E","r","r","o","r"," ","M","e","s","s","a","g","e","s"," ","(","f","i","r","s","t"," ","1","0",")",":">> >>
                        \o sample_blocks(analysis.sample_errors, 1)}} : TRUE

----------------------------------------------------------------------------
(* Calls of the tools                                                      *)

ToolIdle ==
    /\ tool_name = "none"
    /\ tool_repo_path = <<>>
    /\ tool_timestamp = <<>>
    /\ tool_max_commits = DEFAULT_MAX_COMMITS
    /\ tool_service = <<>>
    /\ tool_repo = [exists |-> FALSE, has_git |-> FALSE, git_installed |-> FALSE,
                    log_exit |-> 0, stderr |-> <<>>, commits |-> <<>>]
    /\ tool_file = [exists |-> FALSE, readable |-> FALSE, content |-> <<>>]
    /\ tool_pc = "idle"
    /\ tool_cmds = <<>>
    /\ tool_lines = <<>>
    /\ tool_i = 0
    /\ tool_commits = <<>>
    /\ tool_result = NoneOpt
    /\ tool_error = NoneOpt

\* GitSearchTool._run returns early: the path or its .git entry is missing
GitSearchInvalid ==
    /\ tool_name = "git_search"
    /\ tool_pc = "call"
    /\ ~tool_repo.exists \/ ~tool_repo.has_git
    /\ tool_result' = Some((IF ~tool_repo.exists
                            THEN <<"E","r","r","o","r",":"," ","R","e","p","o","s","i","t","o","r","y"," ","n","o","t"," ","f","o","u","n","d"," ","a","t"," ">>
                            ELSE <<"E","r","r","o","r",":"," ","N","o","t"," ","a"," ","v","a","l","i","d"," ","g","i","t"," ","r","e","p","o","s","i","t","o","r","y"," ","a","t"," ">>)
                           \o tool_repo_path)
    /\ tool_pc' = "returned"
    /\ UNCHANGED <<tool_name, tool_repo_path, tool_timestamp, tool_max_commits,
                   tool_service, tool_repo, tool_file, tool_cmds, tool_error,
                   tool_lines, tool_i, tool_commits>>
    /\ UNCHANGED outside_tool

\* GitSearchTool._run runs the log command: an exception (no git executable,
\* a non-zero exit status) goes to the except clauses, an empty output is
\* reported at once, and the lines of any other output go through the loop
GitSearchLog ==
    /\ tool_name = "git_search"
    /\ tool_pc = "call"
    /\ tool_repo.exists /\ tool_repo.has_git
    /\ \E cmd \in {git_log_command(tool_repo_path, tool_timestamp, tool_max_commits)} :
       \E result \in {git_log_run(tool_repo, cmd)} :
       \E outcome \in
            {git_search_handlers(
                IF ~tool_repo.git_installed
                THEN Raised("FileNotFoundError",
                            <<"[","E","r","r","n","o"," ","2","]"," ","N","o"," ","s","u","c","h"," ","f","i","l","e"," ","o","r"," ","d","i","r","e","c","t","o","r","y",":"," ","'","g","i","t","'">>, <<>>)
                ELSE IF result.exit # 0
                THEN Raised("CalledProcessError",
                            <<"C","o","m","m","a","n","d"," ","r","e","t","u","r","n","e","d"," ","n","o","n","-","z","e","r","o"," ","e","x","i","t"," ","s","t","a","t","u","s">>, result.stderr)
                ELSE IF result.stdout = <<>>
                THEN Returned(<<"N","o"," ","c","o","m","m","i","t","s"," ","f","o","u","n","d"," ","b","e","f","o","r","e"," ">> \o tool_timestamp)
                ELSE Returned(<<>>))} :
          LET looping == /\ tool_repo.git_installed /\ result.exit = 0
                         /\ result.stdout # <<>>
          IN  /\ tool_cmds' = IF tool_repo.git_installed THEN <<cmd>> ELSE <<>>
              /\ tool_lines' = IF looping THEN split_lines(strip(result.stdout)) ELSE <<>>
              /\ tool_i' = IF looping THEN 1 ELSE 0
              /\ tool_result' = IF looping \/ outcome.raised # "" THEN NoneOpt
                                ELSE Some(outcome.text)
              /\ tool_error' = IF outcome.raised = "" THEN NoneOpt
                               ELSE Some(Raise(outcome.raised, outcome.message))
              /\ tool_pc' = IF outcome.raised # "" THEN "raised"
                            ELSE IF looping THEN "lines" ELSE "returned"
    /\ UNCHANGED <<tool_name, tool_repo_path, tool_timestamp, tool_max_commits,
                   tool_service, tool_repo, tool_file, tool_commits>>
    /\ UNCHANGED outside_tool

\* one turn of the loop over the lines: an empty line is passed over, a line
\* of fewer than four fields raises ValueError, which the except clause turns
\* into a text, and any other line gives a commit with its files and risk
GitSearchLine ==
    /\ tool_name = "git_search"
    /\ tool_pc = "lines"
    /\ tool_i <= Len(tool_lines)
    /\ \E line \in {tool_lines[tool_i]} :
       \E parts \in {split_pipe(line, 3)} :
          IF line = <<>>
          THEN UNCHANGED <<tool_commits, tool_cmds, tool_result, tool_error, tool_pc>>
          ELSE IF Len(parts) < 4
          THEN \E outcome \in
                    {git_search_handlers(
                        Raised("ValueError",
                               <<"n","o","t"," ","e","n","o","u","g","h"," ","v","a","l","u","e","s"," ","t","o"," ","u","n","p","a","c","k"," ","(","e","x","p","e","c","t","e","d"," ","4",","," ","g","o","t"," ">>
                               \o str_int(Len(parts)) \o <<")">>, <<>>))} :
                  /\ tool_result' = IF outcome.raised = "" THEN Some(outcome.text)
                                    ELSE NoneOpt
                  /\ tool_error' = IF outcome.raised = "" THEN NoneOpt
                                   ELSE Some(Raise(outcome.raised, outcome.message))
                  /\ tool_pc' = IF outcome.raised = "" THEN "returned" ELSE "raised"
                  /\ UNCHANGED <<tool_commits, tool_cmds>>
          ELSE /\ tool_commits' = Append(tool_commits, commit_of_line(tool_repo, line))
               /\ tool_cmds' = Append(tool_cmds, git_show_command(tool_repo_path, parts[1]))
               /\ UNCHANGED <<tool_result, tool_error, tool_pc>>
    /\ tool_i' = tool_i + 1
    /\ UNCHANGED <<tool_name, tool_repo_path, tool_timestamp, tool_max_commits,
                   tool_service, tool_repo, tool_file, tool_lines>>
    /\ UNCHANGED outside_tool

\* after the loop _run formats the commits and returns the text
GitSearchFormat ==
    /\ tool_name = "git_search"
    /\ tool_pc = "lines"
    /\ tool_i > Len(tool_lines)
    /\ tool_result' = Some(format_commit_output(tool_repo_path, tool_timestamp,
                                                tool_commits))
    /\ tool_pc' = "returned"
    /\ UNCHANGED <<tool_name, tool_repo_path, tool_timestamp, tool_max_commits,
                   tool_service, tool_repo, tool_file, tool_cmds, tool_error,
                   tool_lines, tool_i, tool_commits>>
    /\ UNCHANGED outside_tool

\* LogParserTool._run when the log file of the service does not exist
LogParserMissing ==
    /\ tool_name = "log_parser"
    /\ tool_pc = "call"
    /\ ~tool_file.exists
    /\ tool_result' = Some(<<"E","r","r","o","r",":"," ","L","o","g"," ","f","i","l","e"," ","n","o","t"," ","f","o","u","n","d"," ","f","o","r"," ","s","e","r","v","i","c","e"," ","'">> \o tool_service
                           \o <<"'"," ","a","t"," ">> \o log_file_of(tool_service))
    /\ tool_pc' = "returned"
    /\ UNCHANGED <<tool_name, tool_repo_path, tool_timestamp, tool_max_commits,
                   tool_service, tool_repo, tool_file, tool_cmds, tool_error,
                   tool_lines, tool_i, tool_commits>>
    /\ UNCHANGED outside_tool

\* LogParserTool._run when open() raises: the except clause returns a text
LogParserUnreadable ==
    /\ tool_name = "log_parser"
    /\ tool_pc = "call"
    /\ tool_file.exists
    /\ ~tool_file.readable
    /\ tool_result' = Some(<<"E","r","r","o","r"," ","p","a","r","s","i","n","g"," ","l","o","g","s",":"," ">> \o <<"[","E","r","r","n","o"," ","1","3","]"," ","P","e","r","m","i","s","s","i","o","n"," ","d","e","n","i","e","d",":"," ","'">>
                           \o log_file_of(tool_service) \o <<"'">>)
    /\ tool_pc' = "returned"
    /\ UNCHANGED <<tool_name, tool_repo_path, tool_timestamp, tool_max_commits,
                   tool_service, tool_repo, tool_file, tool_cmds, tool_error,
                   tool_lines, tool_i, tool_commits>>
    /\ UNCHANGED outside_tool

\* LogParserTool._run reads the file and enters extract_errors_from_logs
LogParserRead ==
    /\ tool_name = "log_parser"
    /\ tool_pc = "call"
    /\ tool_file.exists
    /\ tool_file.readable
    /\ tool_pc' = "analysing"
    /\ log_content' = tool_file.content
    /\ ex_pc' = "split"
    /\ UNCHANGED <<lines, ex_i, errors, error_counts, first_error_time,
                   affected_services, ex_result>>
    /\ UNCHANGED <<tool_name, tool_repo_path, tool_timestamp, tool_max_commits,
                   tool_service, tool_repo, tool_file, tool_cmds, tool_result,
                   tool_error, tool_lines, tool_i, tool_commits>>
    /\ UNCHANGED outside_tool_extract

\* LogParserTool._run formats the analysis and returns it
LogParserReturn ==
    /\ tool_name = "log_parser"
    /\ tool_pc = "analysing"
    /\ ex_pc = "done"
    /\ \E types \in ListsOfSet(DOMAIN ex_result[1].error_types) :
          tool_result' = Some(format_analysis_output(tool_service, tool_timestamp,
                                                      ex_result[1], types))
    /\ tool_pc' = "returned"
    /\ UNCHANGED <<tool_name, tool_repo_path, tool_timestamp, tool_max_commits,
                   tool_service, tool_repo, tool_file, tool_cmds, tool_error,
                   tool_lines, tool_i, tool_commits>>
    /\ UNCHANGED outside_tool

ToolNext ==
    \/ GitSearchInvalid
    \/ GitSearchLog
    \/ GitSearchLine
    \/ GitSearchFormat
    \/ LogParserMissing
    \/ LogParserUnreadable
    \/ LogParserRead
    \/ ExtractSplit
    \/ ExtractSkipLine
    \/ ExtractErrorLine
    \/ ExtractReturn
    \/ LogParserReturn

MaxToolCommits == 3

\* commits of a history and the files they change
ToolCommitFix ==
    [hash |-> <<"a","1","f","3","c","5","e","7","b","9","d","0">>, author |-> <<"A","n","n">>,
     date |-> <<"2","0","2","4","-","0","1","-","1","5"," ","1","0",":","3","0",":","0","0"," ","+","0","0","0","0">>, subject |-> <<"f","i","x"," ","l","o","g","i","n">>,
     files |-> << <<"a",".","p","y">>, <<"b",".","p","y">>, <<"c",".","p","y">>, <<"d",".","p","y">>, <<"s","r","c","/","l","o","g","i","n",".","p","y">> >>]
ToolCommitMigration ==
    [hash |-> <<"b","2","e","4","d","6","f","8","a","0","c","1">>, author |-> <<"B","o","b">>,
     date |-> <<"2","0","2","4","-","0","1","-","1","4"," ","0","9",":","0","0",":","0","0"," ","+","0","1","0","0">>, subject |-> <<"a","d","d"," ","u","s","e","r","s"," ","t","a","b","l","e">>,
     files |-> << <<"R","E","A","D","M","E",".","m","d">>, <<"d","b","/","m","i","g","r","a","t","i","o","n",".","s","q","l">> >>]
ToolCommitPiped ==
    [hash |-> <<"c","3","d","5","e","7","f","9","b","1","a","2">>, author |-> <<"C","y","|","D","i">>,
     date |-> <<"2","0","2","4","-","0","1","-","1","3"," ","0","8",":","0","0",":","0","0"," ","+","0","0","0","0">>, subject |-> <<"a","p","i"," ","|"," ","r","o","u","t","e","s">>,
     files |-> << <<"a","p","i","/","r","o","u","t","e","s",".","p","y">>, <<"t","1",".","p","y">>, <<"t","2",".","p","y">>, <<"t","3",".","p","y">>, <<"t","4",".","p","y">>,
                  <<"t","5",".","p","y">>, <<"t","6",".","p","y">> >>]
ToolCommitHotfix ==
    [hash |-> <<"d","4","c","6","b","8","a","0","f","2","e","3">>, author |-> <<"E","v","e">>,
     date |-> <<"2","0","2","4","-","0","1","-","1","2"," ","0","7",":","0","0",":","0","0"," ","+","0","0","0","0">>, subject |-> <<"h","o","t","f","i","x",":"," ","u","r","g","e","n","t">>,
     files |-> <<>>]

ToolCommits == {ToolCommitFix, ToolCommitMigration, ToolCommitPiped, ToolCommitHotfix}

ToolHistories ==
    {h \in SeqsUpTo(ToolCommits, MaxToolCommits) :
        \A i, j \in DOMAIN h : h[i] = h[j] => i = j}

ToolRepositories ==
    { [exists |-> FALSE, has_git |-> FALSE, git_installed |-> TRUE, log_exit |-> 0,
       stderr |-> <<>>, commits |-> <<>>],
      [exists |-> TRUE, has_git |-> FALSE, git_installed |-> TRUE, log_exit |-> 0,
       stderr |-> <<>>, commits |-> <<>>],
      [exists |-> TRUE, has_git |-> TRUE, git_installed |-> FALSE, log_exit |-> 0,
       stderr |-> <<>>, commits |-> <<ToolCommitFix>>],
      [exists |-> TRUE, has_git |-> TRUE, git_installed |-> TRUE, log_exit |-> 128,
       stderr |-> <<"f","a","t","a","l",":"," ","b","a","d"," ","o","b","j","e","c","t"," ","H","E","A","D","\n">>, commits |-> <<ToolCommitFix>>] }
    \cup { [exists |-> TRUE, has_git |-> TRUE, git_installed |-> TRUE, log_exit |-> 0,
            stderr |-> <<>>, commits |-> h] : h \in ToolHistories }

\* timestamps before, between and after the commits, and one that is no date
ToolTimestamps ==
    { <<"2","0","2","0","-","0","1","-","0","1","T","0","0",":","0","0",":","0","0","Z">>, <<"2","0","2","4","-","0","1","-","1","3","T","1","2",":","0","0",":","0","0">>, <<"2","0","2","6","-","0","1","-","2","4","T","0","0",":","0","0",":","0","0">>,
      <<"y","e","s","t","e","r","d","a","y","-","i","s","h">> }

ToolMaxCommits == {-1, 0, 1, 2, DEFAULT_MAX_COMMITS}

ToolFiles ==
    { [exists |-> FALSE, readable |-> FALSE, content |-> <<>>],
      [exists |-> TRUE, readable |-> FALSE, content |-> <<>>] }
    \cup { [exists |-> TRUE, readable |-> TRUE, content |-> join_lines(ls)] :
           ls \in { <<>>, <<LineInfo>>, <<LineDbTimeout, LineInfo, LineHttpPostgres>>,
                    <<LineCrash, LineTraceback>> } }

ToolServices == { <<"p","a","y","m","e","n","t","-","s","e","r","v","i","c","e">>, <<"n","o","n","e","x","i","s","t","e","n","t","-","s","e","r","v","i","c","e">> }

ToolInit ==
    /\ tool_name \in {"git_search", "log_parser"}
    /\ tool_timestamp \in ToolTimestamps
    /\ tool_repo_path \in IF tool_name = "git_search"
                          THEN { <<"/","s","r","v","/","a","p","p">>, <<"/","n","o","n","e","x","i","s","t","e","n","t","/","p","a","t","h">> } ELSE {<<>>}
    /\ tool_max_commits \in IF tool_name = "git_search" THEN ToolMaxCommits
                            ELSE {DEFAULT_MAX_COMMITS}
    /\ tool_repo \in IF tool_name = "git_search" THEN ToolRepositories
                     ELSE {[exists |-> FALSE, has_git |-> FALSE, git_installed |-> FALSE,
                            log_exit |-> 0, stderr |-> <<>>, commits |-> <<>>]}
    /\ tool_service \in IF tool_name = "log_parser" THEN ToolServices ELSE {<<>>}
    /\ tool_file \in IF tool_name = "log_parser" THEN ToolFiles
                     ELSE {[exists |-> FALSE, readable |-> FALSE, content |-> <<>>]}
    /\ tool_pc = "call"
    /\ tool_cmds = <<>>
    /\ tool_lines = <<>>
    /\ tool_i = 0
    /\ tool_commits = <<>>
    /\ tool_result = NoneOpt
    /\ tool_error = NoneOpt
----------------------------------------------------------------------------
(* api/routes.py: the investigation registry and its background tasks      *)

STATUS_PENDING == "pending"
STATUS_RUNNING == "running"
STATUS_COMPLETED == "completed"
STATUS_FAILED == "failed"
HTTP_STATUS_OK == 200
HTTP_STATUS_NOT_FOUND == 404
REPORT_FILENAME_PREFIX == <<"p","o","s","t","m","o","r","t","e","m">>
REPORT_FILENAME_EXTENSION == <<".","m","d">>

\* the values str(uuid.uuid4()) may return
Uuids == { <<"1","b","4","e","2","8","b","a">>, <<"6","f","a","4","5","9","e","a">> }

\* the ids a status query may ask for: those and one that is no uuid
QueryIds == Uuids \cup { <<"l","a","t","e","s","t">> }

\* InvestigationRequest: service_name, alert_type and the optional timestamp
InvestigationRequest(service_name, alert_type, timestamp) ==
    [service_name |-> service_name, alert_type |-> alert_type, timestamp |-> timestamp]

Requests ==
    { InvestigationRequest(<<"p","a","y","m","e","n","t","-","p","r","o","c","e","s","s","o","r">>, <<"t","i","m","e","o","u","t","_","e","r","r","o","r">>,
                           Some(<<"2","0","2","6","-","0","1","-","2","5","T","1","0",":","3","0",":","0","0",".","0","0","0">>)),
      InvestigationRequest(<<"u","s","e","r","-","s","e","r","v","i","c","e">>, <<"h","i","g","h","_","l","a","t","e","n","c","y">>, NoneOpt),
      InvestigationRequest(<<"t","e","s","t","-","s","e","r","v","i","c","e">>, <<"e","r","r","o","r">>, Some(<<>>)) }

\* how IncidentResponderCrew().crew() and crew.kickoff(inputs) may end: the
\* construction raises, the run raises, the run returns a result
CrewConstructionErrors == { Raised("ValueError", <<"A","z","u","r","e"," ","d","e","p","l","o","y","m","e","n","t"," ","i","s"," ","n","o","t"," ","c","o","n","f","i","g","u","r","e","d">>, <<>>) }
CrewKickoffErrors == { Raised("TimeoutError", <<>>, <<>>) }
CrewResults == { Returned(<<"#"," ","P","o","s","t","-","M","o","r","t","e","m">>) }

\* the dictionary trigger_investigation stores; completed_at = NoneOpt stands
\* for a dictionary without the key "completed_at"
new_investigation(request, timestamp, started_at) ==
    [status |-> STATUS_PENDING,
     service_name |-> request.service_name,
     alert_type |-> request.alert_type,
     timestamp |-> timestamp,
     started_at |-> started_at,
     result |-> NoneOpt,
     error |-> NoneOpt,
     completed_at |-> NoneOpt]

\* `request.timestamp or datetime.now().isoformat()`
timestamp_or_now(request, now) ==
    IF request.timestamp = NoneOpt \/ request.timestamp[1] = <<>>
    THEN isoformat(now) ELSE request.timestamp[1]

\* InvestigationResponse as trigger_investigation fills it
InvestigationResponse(investigation_id, request, started_at) ==
    [investigation_id |-> investigation_id,
     status |-> STATUS_PENDING,
     message |-> <<"I","n","v","e","s","t","i","g","a","t","i","o","n"," ","s","t","a","r","t","e","d"," ","f","o","r"," ">> \o request.service_name,
     report_path |-> <<"r","e","p","o","r","t","s","/">> \o REPORT_FILENAME_PREFIX \o <<"_">>
                     \o investigation_id \o REPORT_FILENAME_EXTENSION,
     started_at |-> started_at]

\* a failed run is put back in the queue
status_after_Requeue(outcome) == IF outcome.raised = "" THEN STATUS_COMPLETED ELSE STATUS_PENDING

\* the status run_investigation passes to _update_investigation_status after
\* the crew ended: completed for a result, failed for an exception
status_after(outcome) == IF outcome.raised = "" THEN STATUS_COMPLETED ELSE STATUS_FAILED

\* the update also stamps started_at
fields_after_Restamp(entry, outcome) ==
    IF outcome.raised = ""
    THEN [entry EXCEPT !.result = Some(outcome.text), !.started_at = entry.completed_at[1]]
    ELSE [entry EXCEPT !.error = Some(outcome.message), !.started_at = entry.completed_at[1]]

\* the additional fields it passes: result=str(result) or error=str(e)
fields_after(entry, outcome) ==
    IF outcome.raised = ""
    THEN [entry EXCEPT !.result = Some(outcome.text)]
    ELSE [entry EXCEPT !.error = Some(outcome.message)]

ApiIdle ==
    /\ investigations = <<>>
    /\ api_request = [u \in Uuids |-> NoneOpt]
    /\ api_response = [u \in Uuids |-> NoneOpt]
    /\ api_pc = [u \in Uuids |-> "none"]
    /\ api_crew = [u \in Uuids |-> NoneOpt]
    /\ api_reply = NoneOpt

\* the module is imported: investigations = {}
ApiInit == ApiIdle

\* trigger_investigation, the whole handler: a fresh id, the entry with the
\* status pending, the background task added, the response
trigger_investigation ==
    /\ \E request \in Requests, investigation_id \in Uuids \ DOMAIN investigations,
          now1 \in NowValues, now2 \in NowValues :
          LET timestamp == timestamp_or_now(request, now1)
              started_at == isoformat(now2)
          IN  /\ investigations' =
                    [u \in DOMAIN investigations \cup {investigation_id} |->
                        IF u = investigation_id
                        THEN new_investigation(request, timestamp, started_at)
                        ELSE investigations[u]]
              /\ api_request' = [api_request EXCEPT ![investigation_id] = Some(request)]
              /\ api_response' =
                    [api_response EXCEPT ![investigation_id] =
                        Some(InvestigationResponse(investigation_id, request,
                                                   started_at))]
              /\ api_pc' = [api_pc EXCEPT ![investigation_id] = "queued"]
    /\ api_reply' = NoneOpt
    /\ UNCHANGED api_crew
    /\ UNCHANGED outside_api

\* a task that marks every tracked investigation as running
RunInvestigationStart_AllRunning(id) ==
    /\ api_pc[id] = "queued"
    /\ investigations' = [u \in DOMAIN investigations |->
                             [investigations[u] EXCEPT !.status = STATUS_RUNNING]]
    /\ api_pc' = [api_pc EXCEPT ![id] = "construct"]
    /\ api_reply' = NoneOpt
    /\ UNCHANGED <<api_request, api_response, api_crew>>
    /\ UNCHANGED outside_api

\* run_investigation starts in a worker thread: status = running (line 60)
RunInvestigationStart(id) ==
    /\ api_pc[id] = "queued"
    /\ investigations' = [investigations EXCEPT ![id].status = STATUS_RUNNING]
    /\ api_pc' = [api_pc EXCEPT ![id] = "construct"]
    /\ api_reply' = NoneOpt
    /\ UNCHANGED <<api_request, api_response, api_crew>>
    /\ UNCHANGED outside_api

\* IncidentResponderCrew().crew() returns the crew (line 61)
CrewConstructed(id) ==
    /\ api_pc[id] = "construct"
    /\ api_pc' = [api_pc EXCEPT ![id] = "kickoff"]
    /\ api_reply' = NoneOpt
    /\ UNCHANGED <<investigations, api_request, api_response, api_crew>>
    /\ UNCHANGED outside_api

\* IncidentResponderCrew().crew() raises: the except clause is entered
CrewConstructionRaises(id) ==
    /\ api_pc[id] = "construct"
    /\ \E e \in CrewConstructionErrors : api_crew' = [api_crew EXCEPT ![id] = Some(e)]
    /\ api_pc' = [api_pc EXCEPT ![id] = "status"]
    /\ api_reply' = NoneOpt
    /\ UNCHANGED <<investigations, api_request, api_response>>
    /\ UNCHANGED outside_api

\* crew.kickoff(inputs) returns its result (line 62)
CrewKickoffReturns(id) ==
    /\ api_pc[id] = "kickoff"
    /\ \E result \in CrewResults : api_crew' = [api_crew EXCEPT ![id] = Some(result)]
    /\ api_pc' = [api_pc EXCEPT ![id] = "status"]
    /\ api_reply' = NoneOpt
    /\ UNCHANGED <<investigations, api_request, api_response>>
    /\ UNCHANGED outside_api

\* crew.kickoff(inputs) raises: the except clause is entered
CrewKickoffRaises(id) ==
    /\ api_pc[id] = "kickoff"
    /\ \E e \in CrewKickoffErrors : api_crew' = [api_crew EXCEPT ![id] = Some(e)]
    /\ api_pc' = [api_pc EXCEPT ![id] = "status"]
    /\ api_reply' = NoneOpt
    /\ UNCHANGED <<investigations, api_request, api_response>>
    /\ UNCHANGED outside_api

\* an update that leaves the status alone
UpdateStatus_Skipped(id) ==
    /\ api_pc[id] = "status"
    /\ api_pc' = [api_pc EXCEPT ![id] = "completed_at"]
    /\ api_reply' = NoneOpt
    /\ UNCHANGED <<investigations, api_request, api_response, api_crew>>
    /\ UNCHANGED outside_api

\* _update_investigation_status, first statement (line 45): the status
UpdateStatus(id) ==
    /\ api_pc[id] = "status"
    /\ investigations' = [investigations EXCEPT ![id].status = status_after(api_crew[id][1])]
    /\ api_pc' = [api_pc EXCEPT ![id] = "completed_at"]
    /\ api_reply' = NoneOpt
    /\ UNCHANGED <<api_request, api_response, api_crew>>
    /\ UNCHANGED outside_api

\* _update_investigation_status, second statement (line 46): completed_at
UpdateCompletedAt(id) ==
    /\ api_pc[id] = "completed_at"
    /\ \E now \in NowValues :
          investigations' = [investigations EXCEPT ![id].completed_at = Some(isoformat(now))]
    /\ api_pc' = [api_pc EXCEPT ![id] = "fields"]
    /\ api_reply' = NoneOpt
    /\ UNCHANGED <<api_request, api_response, api_crew>>
    /\ UNCHANGED outside_api

\* _update_investigation_status, the loop over additional_fields (47-48);
\* run_investigation returns
UpdateFields(id) ==
    /\ api_pc[id] = "fields"
    /\ investigations' =
          [investigations EXCEPT ![id] = fields_after(investigations[id], api_crew[id][1])]
    /\ api_pc' = [api_pc EXCEPT ![id] = "done"]
    /\ api_reply' = NoneOpt
    /\ UNCHANGED <<api_request, api_response, api_crew>>
    /\ UNCHANGED outside_api

\* a handler that hides the investigations that have not started
get_investigation_HidesPending(registry, investigation_id) ==
    IF \/ investigation_id \notin DOMAIN registry
       \/ registry[investigation_id].status = STATUS_PENDING
    THEN [status_code |-> HTTP_STATUS_NOT_FOUND, investigation_id |-> investigation_id,
          detail |-> Some(<<"I","n","v","e","s","t","i","g","a","t","i","o","n"," ","n","o","t"," ","f","o","u","n","d">>), body |-> NoneOpt]
    ELSE [status_code |-> HTTP_STATUS_OK, investigation_id |-> investigation_id,
          detail |-> NoneOpt, body |-> Some(registry[investigation_id])]

\* get_investigation: 404 for an id that is not in the registry, the entry
\* otherwise
get_investigation(registry, investigation_id) ==
    IF investigation_id \notin DOMAIN registry
    THEN [status_code |-> HTTP_STATUS_NOT_FOUND, investigation_id |-> investigation_id,
          detail |-> Some(<<"I","n","v","e","s","t","i","g","a","t","i","o","n"," ","n","o","t"," ","f","o","u","n","d">>), body |-> NoneOpt]
    ELSE [status_code |-> HTTP_STATUS_OK, investigation_id |-> investigation_id,
          detail |-> NoneOpt, body |-> Some(registry[investigation_id])]

GetInvestigation ==
    /\ \E investigation_id \in QueryIds :
          api_reply' = Some(get_investigation(investigations, investigation_id))
    /\ UNCHANGED <<investigations, api_request, api_response, api_pc, api_crew>>
    /\ UNCHANGED outside_api

\* the steps of the background task of one investigation after its crew ended
UpdateSteps(id) == UpdateStatus(id) \/ UpdateCompletedAt(id) \/ UpdateFields(id)

ApiNext ==
    \/ trigger_investigation
    \/ \E id \in Uuids : RunInvestigationStart(id)
    \/ \E id \in Uuids : CrewConstructed(id)
    \/ \E id \in Uuids : CrewConstructionRaises(id)
    \/ \E id \in Uuids : CrewKickoffReturns(id)
    \/ \E id \in Uuids : CrewKickoffRaises(id)
    \/ \E id \in Uuids : UpdateStatus(id)
    \/ \E id \in Uuids : UpdateCompletedAt(id)
    \/ \E id \in Uuids : UpdateFields(id)
    \/ GetInvestigation

\* the calls of trigger_investigation and the background tasks alone, with
\* no status query in between
ApiTaskNext ==
    \/ trigger_investigation
    \/ \E id \in Uuids : RunInvestigationStart(id)
    \/ \E id \in Uuids : CrewConstructed(id)
    \/ \E id \in Uuids : CrewConstructionRaises(id)
    \/ \E id \in Uuids : CrewKickoffReturns(id)
    \/ \E id \in Uuids : CrewKickoffRaises(id)
    \/ \E id \in Uuids : UpdateStatus(id)
    \/ \E id \in Uuids : UpdateCompletedAt(id)
    \/ \E id \in Uuids : UpdateFields(id)

----------------------------------------------------------------------------
(* tools/report_generator_tool.py and utils/qdrant_store.py                *)

REPORT_METADATA_SEPARATOR == <<"-","-","-">>
REPORTS_DIRECTORY == <<"/","a","p","p","/","r","e","p","o","r","t","s">>

\* how many times _run is called
MaxSaves == 2

\* _generate_filename
generate_filename(investigation_id) ==
    REPORT_FILENAME_PREFIX \o <<"_">> \o investigation_id \o REPORT_FILENAME_EXTENSION

\* Config.REPORTS_DIRECTORY / filename
report_path_of(investigation_id) ==
    REPORTS_DIRECTORY \o <<"/">> \o generate_filename(investigation_id)

\* _generate_metadata_header at the time now
generate_metadata_header(investigation_id, now) ==
    REPORT_METADATA_SEPARATOR \o <<"\n">>
    \o <<"I","n","v","e","s","t","i","g","a","t","i","o","n"," ","I","D",":"," ">> \o investigation_id \o <<"\n">>
    \o <<"G","e","n","e","r","a","t","e","d",":"," ">> \o isoformat(now) \o <<"\n">>
    \o REPORT_METADATA_SEPARATOR \o <<"\n", "\n">>

\* the payload store_report_embedding builds, with the vector of the point
report_point(args, report_path, embedding) ==
    [id |-> args.investigation_id,
     vector |-> embedding,
     payload |-> [investigation_id |-> args.investigation_id,
                  alert_type |-> args.alert_type,
                  service_name |-> args.service_name,
                  report_path |-> report_path,
                  timestamp |-> args.timestamp]]

\* client.upsert: the point replaces the point of the same id
upsert(points, point) ==
    [i \in DOMAIN points \cup {point.id} |-> IF i = point.id THEN point ELSE points[i]]

\* open(report_path, "w") and f.write(full_content): the file is created or
\* replaced
write_file(dir, path, text) ==
    [p \in DOMAIN dir \cup {path} |-> IF p = path THEN text ELSE dir[p]]

\* the except clause of _run
report_error_text(e) == <<"E","r","r","o","r"," ","g","e","n","e","r","a","t","i","n","g"," ","r","e","p","o","r","t",":"," ">> \o e.message

ReportIds == { <<"i","n","v","-","0","0","1">>, <<"i","n","v","-","0","0","2">> }
ReportContents == { <<"#"," ","R","e","p","o","r","t"," ","C","o","n","t","e","n","t">>, <<"#"," ","S","i","m","p","l","e"," ","R","e","p","o","r","t">> }
ReportArgs ==
    { [investigation_id |-> i, content |-> c, alert_type |-> <<"t","i","m","e","o","u","t","_","e","r","r","o","r">>,
       service_name |-> <<"p","a","y","m","e","n","t","-","s","e","r","v","i","c","e">>, timestamp |-> <<"2","0","2","6","-","0","1","-","2","3","T","1","4",":","3","0",":","0","0">>] :
        i \in ReportIds, c \in ReportContents }
\* the vectors the embedding service may return
Embeddings == { <<1, 0>>, <<0, 1>> }
\* what the file system, the embedding service and the vector store may raise
FileErrors == { Raise("PermissionError", <<"[","E","r","r","n","o"," ","1","3","]"," ","P","e","r","m","i","s","s","i","o","n"," ","d","e","n","i","e","d">>) }
EmbeddingErrors == { Raise("APIConnectionError", <<"C","o","n","n","e","c","t","i","o","n"," ","e","r","r","o","r",".">>) }
StoreErrors == { Raise("ResponseHandlingException", <<"[","E","r","r","n","o"," ","1","1","1","]"," ","C","o","n","n","e","c","t","i","o","n"," ","r","e","f","u","s","e","d">>) }

ReportIdle ==
    /\ report_files = <<>>
    /\ report_points = <<>>
    /\ report_args = NoneOpt
    /\ report_pc = "idle"
    /\ report_full = <<>>
    /\ report_embedding = NoneOpt
    /\ report_result = NoneOpt
    /\ report_raised = "none"
    /\ report_saves = <<>>

\* an empty reports directory and an empty collection
ReportInit == ReportIdle

\* _run is called
ReportRun ==
    /\ report_pc \in {"idle", "returned"}
    /\ Len(report_saves) < MaxSaves
    /\ \E args \in ReportArgs : report_args' = Some(args)
    /\ report_pc' = "write"
    /\ report_full' = <<>>
    /\ report_embedding' = NoneOpt
    /\ report_result' = NoneOpt
    /\ report_raised' = "none"
    /\ UNCHANGED <<report_files, report_points, report_saves>>
    /\ UNCHANGED outside_report

\* mkdir or open raises: the except clause returns the error text
ReportWriteFails ==
    /\ report_pc = "write"
    /\ \E e \in FileErrors : report_result' = Some(report_error_text(e))
    /\ report_raised' = "write"
    /\ report_pc' = "returned"
    /\ UNCHANGED <<report_files, report_points, report_args, report_full,
                   report_embedding, report_saves>>
    /\ UNCHANGED outside_report

\* lines 73-79: the directory, the filename, the header, the file written
ReportWrite ==
    /\ report_pc = "write"
    /\ \E now \in NowValues :
       \E full_content \in {generate_metadata_header(report_args[1].investigation_id, now)
                            \o report_args[1].content} :
          /\ report_full' = full_content
          /\ report_files' = write_file(report_files,
                                        report_path_of(report_args[1].investigation_id),
                                        full_content)
          /\ report_saves' = Append(report_saves,
                                    [investigation_id |-> report_args[1].investigation_id,
                                     at |-> now])
    /\ report_pc' = "embed"
    /\ UNCHANGED <<report_points, report_args, report_embedding, report_result,
                   report_raised>>
    /\ UNCHANGED outside_report

\* a handler that removes the file when the embedding fails
ReportEmbedFails_Unlink ==
    /\ report_pc = "embed"
    /\ \E e \in EmbeddingErrors : report_result' = Some(report_error_text(e))
    /\ report_raised' = "embed"
    /\ report_pc' = "returned"
    /\ report_files' = [p \in DOMAIN report_files \
                                {report_path_of(report_args[1].investigation_id)} |->
                           report_files[p]]
    /\ UNCHANGED <<report_points, report_args, report_full, report_embedding,
                   report_saves>>
    /\ UNCHANGED outside_report

\* _generate_embedding raises: the except clause returns the error text
ReportEmbedFails ==
    /\ report_pc = "embed"
    /\ \E e \in EmbeddingErrors : report_result' = Some(report_error_text(e))
    /\ report_raised' = "embed"
    /\ report_pc' = "returned"
    /\ UNCHANGED <<report_files, report_points, report_args, report_full,
                   report_embedding, report_saves>>
    /\ UNCHANGED outside_report

\* line 81: _generate_embedding returns the vector
ReportEmbed ==
    /\ report_pc = "embed"
    /\ \E embedding \in Embeddings : report_embedding' = Some(embedding)
    /\ report_pc' = "store"
    /\ UNCHANGED <<report_files, report_points, report_args, report_full,
                   report_result, report_raised, report_saves>>
    /\ UNCHANGED outside_report

\* store_report_embedding raises: the except clause returns the error text
ReportStoreFails ==
    /\ report_pc = "store"
    /\ \E e \in StoreErrors : report_result' = Some(report_error_text(e))
    /\ report_raised' = "store"
    /\ report_pc' = "returned"
    /\ UNCHANGED <<report_files, report_points, report_args, report_full,
                   report_embedding, report_saves>>
    /\ UNCHANGED outside_report

\* lines 82-90: store_report_embedding upserts the point, _run returns
ReportStore ==
    /\ report_pc = "store"
    /\ \E report_path \in {report_path_of(report_args[1].investigation_id)} :
          /\ report_points' = upsert(report_points,
                                     report_point(report_args[1], report_path,
                                                  report_embedding[1]))
          /\ report_result' = Some(<<"R","e","p","o","r","t"," ","s","u","c","c","e","s","s","f","u","l","l","y"," ","s","a","v","e","d"," ","t","o",":"," ">> \o report_path)
    /\ report_pc' = "returned"
    /\ UNCHANGED <<report_files, report_args, report_full, report_embedding,
                   report_raised, report_saves>>
    /\ UNCHANGED outside_report

ReportNext ==
    \/ ReportRun
    \/ ReportWriteFails
    \/ ReportWrite
    \/ ReportEmbedFails
    \/ ReportEmbed
    \/ ReportStoreFails
    \/ ReportStore


----------------------------------------------------------------------------
(* Claims about _assess_risk                                               *)

AnyFileMatches(fs, patterns) ==
    \E i \in 1..Len(fs) : ContainsAny(lower(fs[i]), patterns)

\* the level the precedence chain of the specification prescribes
PrescribedRisk(fs, msg) ==
    IF AnyFileMatches(fs, HIGH_RISK_PATTERNS) THEN RISK_LEVEL_HIGH
    ELSE IF AnyFileMatches(fs, MEDIUM_RISK_PATTERNS) THEN RISK_LEVEL_MEDIUM
    ELSE IF ContainsAny(lower(msg), HIGH_RISK_KEYWORDS) THEN RISK_LEVEL_HIGH
    ELSE RISK_LEVEL_LOW

\* C1: _assess_risk returns HIGH if a file matches a high-risk pattern, else
\* MEDIUM if a file matches a medium-risk pattern, else HIGH if the message
\* holds a high-risk keyword, else LOW; a second call with the same inputs
\* returns the same level, and a keyword in the message never turns a
\* MEDIUM file set into HIGH.
C1_AssessRiskPrecedence ==
    risk_pc = "done" =>
        /\ risk_level = PrescribedRisk(files, message)
        /\ risk_prev # None => risk_level = risk_prev
        /\ ( /\ ~AnyFileMatches(files, HIGH_RISK_PATTERNS)
             /\ AnyFileMatches(files, MEDIUM_RISK_PATTERNS) )
           => risk_level = RISK_LEVEL_MEDIUM

\* a medium-risk file listed before a high-risk file, a message with a
\* keyword, and the second call has returned
C1_Witness ==
    /\ risk_pc = "done"
    /\ risk_prev # None
    /\ Len(files) = 2
    /\ ContainsAny(lower(files[1]), MEDIUM_RISK_PATTERNS)
    /\ ~ContainsAny(lower(files[1]), HIGH_RISK_PATTERNS)
    /\ ContainsAny(lower(files[2]), HIGH_RISK_PATTERNS)
    /\ ContainsAny(lower(message), HIGH_RISK_KEYWORDS)
    /\ risk_level = RISK_LEVEL_HIGH

----------------------------------------------------------------------------
(* Claims about extract_errors_from_logs and categorize_error              *)

Range(q) == {q[i] : i \in DOMAIN q}

RECURSIVE SumOver(_, _)
SumOver(d, keys) ==
    IF keys = {} THEN 0
    ELSE LET k == CHOOSE x \in keys : TRUE IN d[k] + SumOver(d, keys \ {k})

\* the line parses in the standard format at level ERROR, CRITICAL or FATAL
Qualifies(line) ==
    /\ parse_log_line(line) # NoneOpt
    /\ parse_log_line(line)[1].level \in
          {LOG_LEVEL_ERROR, LOG_LEVEL_CRITICAL, LOG_LEVEL_FATAL}

\* the positions of the qualifying lines among the first n lines
QualifyingUpTo(ls, n) == {i \in 1..n : Qualifies(ls[i])}

\* the k-th smallest element of a set of positions
NthOf(q, k) == CHOOSE i \in q : Cardinality({j \in q : j < i}) = k - 1

\* the timestamp of the first qualifying line among the first n lines
FirstErrorUpTo(ls, n) ==
    LET q == QualifyingUpTo(ls, n)
    IN  IF q = {} THEN NoneOpt
        ELSE Some(parse_log_line(ls[NthOf(q, 1)])[1].timestamp)

\* the message matches the pattern of the category
MatchesCategory(c, msg) ==
    CASE c = ERROR_CATEGORY_DATABASE -> DATABASE_ERROR_search(msg)
      [] c = ERROR_CATEGORY_HTTP -> HTTP_ERROR_search(msg)
      [] c = ERROR_CATEGORY_NULL_POINTER -> NULL_POINTER_search(msg)
      [] c = ERROR_CATEGORY_STACK_TRACE -> STACK_TRACE_search(msg)

PatternCategories ==
    { ERROR_CATEGORY_DATABASE, ERROR_CATEGORY_HTTP, ERROR_CATEGORY_NULL_POINTER,
      ERROR_CATEGORY_STACK_TRACE }

\* the categories an error message counts for
CountsFor(c, msg) ==
    IF c = ERROR_CATEGORY_GENERAL
    THEN \A p \in PatternCategories : ~MatchesCategory(p, msg)
    ELSE MatchesCategory(c, msg)

\* C2: total_errors is the number of lines that parse in the standard format
\* at level ERROR, CRITICAL or FATAL; other levels and lines that do not
\* parse are not counted.
C2_TotalErrorsCountsQualifyingLines ==
    ex_pc = "done" =>
        LET ls == split_lines(log_content)
        IN  ex_result[1].total_errors = Cardinality(QualifyingUpTo(ls, Len(ls)))

\* a FATAL line is counted beside a line that does not parse
C2_Witness ==
    /\ ex_pc = "done"
    /\ Len(lines) = 2
    /\ lines[1] = LineLowercase
    /\ lines[2] = LineCrash
    /\ ex_result[1].total_errors = 1

\* C3: sample_errors has length min(total_errors, 10) and holds the first
\* qualifying events in document order, while total_errors counts them all.
C3_SampleErrorsAreFirstTen ==
    ex_pc = "done" =>
        LET ls == split_lines(log_content)
            r == ex_result[1]
            q == QualifyingUpTo(ls, Len(ls))
            n == Cardinality(q)
        IN  /\ r.total_errors = n
            /\ Len(r.sample_errors) = IF n < 10 THEN n ELSE 10
            /\ \A k \in 1..Len(r.sample_errors) :
                  r.sample_errors[k] = parse_log_line(ls[NthOf(q, k)])[1]

\* more than ten errors of two kinds, ten samples
C3_Witness ==
    /\ ex_pc = "done"
    /\ ex_result[1].total_errors = 12
    /\ Len(ex_result[1].sample_errors) = 10
    /\ ex_result[1].sample_errors[1].raw_line = LineHttpPostgres
    /\ ex_result[1].sample_errors[10].raw_line = LineDbTimeout

\* C4: first_error_timestamp is the timestamp of the first qualifying line in
\* document order, whatever the timestamps of the later lines; while the
\* lines are scanned the value kept is always that of the first qualifying
\* line seen so far, so it is never replaced.
C4_FirstErrorInDocumentOrder ==
    /\ ex_pc = "scan" => first_error_time = FirstErrorUpTo(lines, ex_i - 1)
    /\ ex_pc = "done" =>
          LET ls == split_lines(log_content)
          IN  ex_result[1].first_error_timestamp = FirstErrorUpTo(ls, Len(ls))

\* the second error line carries an earlier timestamp than the first
C4_Witness ==
    /\ ex_pc = "done"
    /\ Len(lines) = 2
    /\ lines[1] = LineDbTimeout
    /\ lines[2] = LineHttpPostgres
    /\ ex_result[1].total_errors = 2
    /\ ex_result[1].first_error_timestamp = Some(TS_LATE)
    /\ ex_result[1].sample_errors[2].timestamp = TS_EARLY

\* C5: the count of a category is the number of qualifying events whose
\* message matches it (General: matches none of the four patterns);
\* categories without such an event are absent; every count is between 1
\* and total_errors and the counts sum to at least total_errors.
C5_ErrorTypeCounts ==
    ex_pc = "done" =>
        LET ls == split_lines(log_content)
            r == ex_result[1]
            q == QualifyingUpTo(ls, Len(ls))
            n(c) == Cardinality({i \in q : CountsFor(c, parse_log_line(ls[i])[1].message)})
        IN  /\ DOMAIN r.error_types \subseteq PatternCategories \cup {ERROR_CATEGORY_GENERAL}
            /\ \A c \in PatternCategories \cup {ERROR_CATEGORY_GENERAL} :
                  IF n(c) = 0 THEN c \notin DOMAIN r.error_types
                  ELSE c \in DOMAIN r.error_types /\ r.error_types[c] = n(c)
            /\ \A c \in DOMAIN r.error_types :
                  r.error_types[c] >= 1 /\ r.error_types[c] <= r.total_errors
            /\ SumOver(r.error_types, DOMAIN r.error_types) >= r.total_errors

\* an error of two categories and an error of none: the counts sum to more
\* than total_errors
C5_Witness ==
    /\ ex_pc = "done"
    /\ ex_result[1].total_errors = 2
    /\ DOMAIN ex_result[1].error_types =
          {ERROR_CATEGORY_DATABASE, ERROR_CATEGORY_HTTP, ERROR_CATEGORY_GENERAL}
    /\ SumOver(ex_result[1].error_types, DOMAIN ex_result[1].error_types) = 3

\* C6: categorize_error returns a non-empty list that holds each of the four
\* pattern categories exactly when its pattern matches the message, and
\* General exactly when none matches, then as the only element.
C6_CategorizeReturnsAllMatches ==
    cat_pc = "done" =>
        LET cats == cat_result[1]
        IN  /\ cats # <<>>
            /\ \A c \in PatternCategories :
                  c \in Range(cats) <=> MatchesCategory(c, cat_message)
            /\ ERROR_CATEGORY_GENERAL \in Range(cats)
                  <=> \A c \in PatternCategories : ~MatchesCategory(c, cat_message)
            /\ ERROR_CATEGORY_GENERAL \in Range(cats) => cats = <<ERROR_CATEGORY_GENERAL>>
            /\ Range(cats) \subseteq PatternCategories \cup {ERROR_CATEGORY_GENERAL}

\* a message that matches two patterns: both categories are returned
C6_Witness ==
    /\ cat_pc = "done"
    /\ cat_message = <<"D","a","t","a","b","a","s","e","H","T","T","P"," ","5","0","0">>
    /\ cat_result[1] = <<ERROR_CATEGORY_DATABASE, ERROR_CATEGORY_HTTP>>

\* C7: without a qualifying line (the empty text included) the result has
\* total_errors 0, no first timestamp, no service, no error type and no
\* sample; first_error_timestamp is None only when total_errors is 0, and
\* affected_services is empty only when total_errors is 0.
C7_EmptyResultIffNoErrors ==
    ex_pc = "done" =>
        LET ls == split_lines(log_content)
            r == ex_result[1]
        IN  /\ (log_content = <<>> \/ QualifyingUpTo(ls, Len(ls)) = {}) =>
                  /\ r.total_errors = 0
                  /\ r.first_error_timestamp = NoneOpt
                  /\ r.affected_services = <<>>
                  /\ DOMAIN r.error_types = {}
                  /\ r.sample_errors = <<>>
            /\ r.first_error_timestamp = NoneOpt => r.total_errors = 0
            /\ r.affected_services = <<>> => r.total_errors = 0

\* a text whose lines parse at WARNING and INFO only
C7_Witness ==
    /\ ex_pc = "done"
    /\ Len(lines) = 2
    /\ lines[1] = LineWarning
    /\ lines[2] = LineInfo
    /\ ex_result[1].total_errors = 0
    /\ ex_result[1].first_error_timestamp = NoneOpt

----------------------------------------------------------------------------
(* Claims about LocalLogAdapter.get_logs                                   *)

\* the instant of a datetime in UTC, a naive one taken as UTC
UtcOf(dt) == UtcInstant(dt, IF dt.tzinfo = NoneOpt THEN 0 ELSE dt.tzinfo[1])

\* since <= t <= until for the timestamp t of the entry
InWindow(entry) ==
    /\ ~InstantLess(UtcOf(entry.timestamp), UtcOf(local_since[1]))
    /\ ~InstantLess(UtcOf(local_until[1]), UtcOf(entry.timestamp))

\* the entry is in the window and at the level of the filter
InWindowAtLevel(entry) == InWindow(entry) /\ entry.level = local_level[1]

IsSome(opt) == opt # NoneOpt

\* the entries parsed so far, in the order of their lines
ParsedEvents ==
    LET some == SelectSeq(local_entries, IsSome)
    IN  [k \in 1..Len(some) |-> some[k][1]]

\* the groups of the pattern that matches each line a file may hold
MatchedFileLines == [l \in FileLines |-> LOG_PATTERNS_match(strip(l))]

HasLevelFilter == local_level # NoneOpt /\ local_level[1] # <<>>

\* C8: without a level filter get_logs yields a parsed event exactly when
\* since <= t <= until holds for its timestamp in UTC (a naive timestamp
\* taken as UTC), the two bounds included, in the order of the lines; with
\* a filter it still yields no event outside the window.
C8_YieldsExactlyTheWindow ==
    /\ ~HasLevelFilter => local_yielded = SelectSeq(ParsedEvents, InWindow)
    /\ \A k \in 1..Len(local_yielded) : InWindow(local_yielded[k])

\* the event at until is yielded and the one a microsecond later is not
C8_Witness ==
    /\ local_pc = "done"
    /\ local_level = NoneOpt
    /\ local_file = <<FileLineAfterUntil, FileLineAtUntil>>
    /\ Len(local_yielded) = 1
    /\ local_yielded[1].message = <<"a","t"," ","u","n","t","i","l">>
    /\ UtcOf(local_yielded[1].timestamp) = UtcOf(local_until[1])

\* C9: when the log file of the service does not exist, get_logs ends
\* without an error, yields nothing and opens no file.
C9_MissingFileYieldsNothing ==
    ~exists(get_log_file_path(local_service)) =>
        /\ local_pc \in {"start", "done"}
        /\ local_yielded = <<>>
        /\ ~local_opened

\* the call for a service without a log file has returned
C9_Witness ==
    /\ local_pc = "done"
    /\ local_service = <<"m","i","s","s","i","n","g">>
    /\ local_file # <<>>
    /\ local_yielded = <<>>
    /\ ~local_opened

\* C10: the level of a line that matches a pattern is its level token in
\* upper case, with WARN replaced by WARNING; with a level filter L get_logs
\* yields exactly the events in the window whose level is L, so every
\* yielded event has level L and a line logged as WARN in any letter case
\* is yielded under the filter WARNING.
C10_LevelNormalizedAndFiltered ==
    /\ \A k \in 1..Len(local_entries) :
          LET match == MatchedFileLines[local_file[k]]
          IN  match # NoneOpt =>
                 /\ local_entries[k] # NoneOpt
                 /\ local_entries[k][1].level =
                       IF upper(match[1][2]) = <<"W","A","R","N">> THEN <<"W","A","R","N","I","N","G">>
                       ELSE upper(match[1][2])
                 /\ ( /\ upper(match[1][2]) = <<"W","A","R","N">>
                      /\ local_level = Some(<<"W","A","R","N","I","N","G">>)
                      /\ InWindow(local_entries[k][1]) )
                    => \E j \in 1..Len(local_yielded) : local_yielded[j] = local_entries[k][1]
    /\ HasLevelFilter =>
          /\ local_yielded = SelectSeq(ParsedEvents, InWindowAtLevel)
          /\ \A k \in 1..Len(local_yielded) : local_yielded[k].level = local_level[1]

\* a line logged as "warn" is the one event yielded under the filter WARNING
C10_Witness ==
    /\ local_pc = "done"
    /\ local_level = Some(<<"W","A","R","N","I","N","G">>)
    /\ local_file = <<FileLineAtSince, FileLineAtUntil>>
    /\ Len(local_yielded) = 1
    /\ local_yielded[1].level = <<"W","A","R","N","I","N","G">>
    /\ local_yielded[1].message = <<"a","t"," ","u","n","t","i","l">>

\* the levels an event may carry after normalization
RecognizedLevels ==
    { LOG_LEVEL_DEBUG, LOG_LEVEL_INFO, LOG_LEVEL_WARNING, LOG_LEVEL_ERROR,
      LOG_LEVEL_CRITICAL, LOG_LEVEL_FATAL }

\* C11: every event LocalLogAdapter produces from a non-blank line carries
\* one of the levels DEBUG, INFO, WARNING, ERROR, CRITICAL, FATAL; a
\* timestamped line whose second token is no recognized level gives no event
\* with that token as its level.
C11_LevelsAreRecognized ==
    /\ \A k \in 1..Len(local_entries) :
          local_entries[k] # NoneOpt => local_entries[k][1].level \in RecognizedLevels
    /\ \A k \in 1..Len(local_yielded) : local_yielded[k].level \in RecognizedLevels

----------------------------------------------------------------------------
(* Claims about SourceFactory                                              *)

\* C12: create_log_source returns a LocalLogAdapter exactly when the source
\* type in lower case is "local"; for "github-actions" in any letter case it
\* raises a ValueError that names create_github_actions_source, for any other
\* string a ValueError "Unknown log source type"; create_git_source returns a
\* LocalGitAdapter only for "local" and raises a ValueError otherwise; when
\* a call raises, no adapter has been constructed or returned.
C12_FactoryReturnsOnlyLocalAdapters ==
    fac_pc \in {"returned", "raised"} =>
        LET t == lower(fac_source_type)
            log == fac_method = "create_log_source"
        IN  /\ fac_pc = "returned" <=> t = <<"l","o","c","a","l">>
            /\ fac_pc = "returned" =>
                  /\ fac_error = NoneOpt
                  /\ fac_result # NoneOpt
                  /\ fac_result[1].class =
                        IF log THEN "LocalLogAdapter" ELSE "LocalGitAdapter"
                  /\ fac_constructed = <<fac_result[1]>>
            /\ fac_pc = "raised" =>
                  /\ fac_result = NoneOpt
                  /\ fac_constructed = <<>>
                  /\ fac_error # NoneOpt
                  /\ fac_error[1].type = "ValueError"
                  /\ IF log /\ t = <<"g","i","t","h","u","b","-","a","c","t","i","o","n","s">>
                     THEN Contains(fac_error[1].message, <<"c","r","e","a","t","e","_","g","i","t","h","u","b","_","a","c","t","i","o","n","s","_","s","o","u","r","c","e">>)
                     ELSE IF log
                     THEN StartsAt(fac_error[1].message, <<"U","n","k","n","o","w","n"," ","l","o","g"," ","s","o","u","r","c","e"," ","t","y","p","e">>, 1)
                     ELSE StartsAt(fac_error[1].message, <<"U","n","k","n","o","w","n"," ","g","i","t"," ","s","o","u","r","c","e"," ","t","y","p","e">>, 1)

\* "Local" gives a LocalLogAdapter on the directory given
C12_Witness ==
    /\ fac_pc = "returned"
    /\ fac_method = "create_log_source"
    /\ fac_source_type = <<"L","o","c","a","l">>
    /\ fac_kwargs = Some(<<"/","c","u","s","t","o","m","/","p","a","t","h">>)
    /\ fac_result = Some([class |-> "LocalLogAdapter", path |-> <<"/","c","u","s","t","o","m","/","p","a","t","h">>])

----------------------------------------------------------------------------
(* Claims about GitHubActionsAdapter                                       *)

\* the URL has a segment /actions/runs/<digits>
HasRunSegment(url) ==
    \E i \in 1..Len(url) :
        StartsAt(url, <<"/","a","c","t","i","o","n","s","/","r","u","n","s","/">>, i) /\ DigitsAt(url, i + 14, 1)

\* the call raised a ValueError whose message starts with msg and sent no request
RejectedWith(msg) ==
    /\ gha_pc = "raised"
    /\ gha_error # NoneOpt
    /\ gha_error[1].type = "ValueError"
    /\ StartsAt(gha_error[1].message, msg, 1)
    /\ gha_requests = <<>>

\* C13: get_workflow_run and get_workflow_logs reject each invalid input with
\* its own ValueError before any HTTP request is sent: neither run_id nor
\* run_url ("Either run_id or run_url must be provided"), a run_url without
\* a segment /actions/runs/<digits> when run_id is absent ("Invalid GitHub
\* Actions run URL"), a repo without "/" ("Invalid repo format"); a failing
\* HTTP response is another error than these three.
C13_InvalidInputRejectedBeforeRequest ==
    (gha_method \in {"get_workflow_run", "get_workflow_logs"} /\ gha_pc # "call") =>
        /\ (gha_run_id = NoneOpt /\ gha_run_url = NoneOpt)
              => RejectedWith(<<"E","i","t","h","e","r"," ","r","u","n","_","i","d"," ","o","r"," ","r","u","n","_","u","r","l"," ","m","u","s","t"," ","b","e"," ","p","r","o","v","i","d","e","d">>)
        /\ (gha_run_id = NoneOpt /\ gha_run_url # NoneOpt /\ ~HasRunSegment(gha_run_url[1]))
              => RejectedWith(<<"I","n","v","a","l","i","d"," ","G","i","t","H","u","b"," ","A","c","t","i","o","n","s"," ","r","u","n"," ","U","R","L">>)
        /\ ( /\ ~Contains(gha_repo, <<"/">>)
             /\ gha_run_id # NoneOpt \/ (gha_run_url # NoneOpt /\ HasRunSegment(gha_run_url[1])) )
              => RejectedWith(<<"I","n","v","a","l","i","d"," ","r","e","p","o"," ","f","o","r","m","a","t">>)
        /\ (gha_requests # <<>> /\ ~gha_server.ok)
              => (gha_pc = "raised" /\ gha_error[1].type = "HTTPError")

\* the jobs and steps of a jobs response in the order of the response
RECURSIVE JobsAndSteps(_)
JobsAndSteps(jobs) ==
    IF jobs = <<>> THEN <<>>
    ELSE <<[kind |-> <<"J","o","b">>, item |-> [k \in {"name", "conclusion"} |-> Head(jobs)[k]]]>>
         \o [s \in 1..Len(Head(jobs).steps) |->
                [kind |-> <<"S","t","e","p">>,
                 item |-> [k \in {"name", "conclusion"} |-> Head(jobs).steps[s][k]]]]
         \o JobsAndSteps(Tail(jobs))

\* C14: for a jobs response with jobs j1..jn, job ji having si steps,
\* get_workflow_logs yields exactly n + s1 + ... + sn entries: the entry of
\* j1, the entries of its steps in the order of the response, the entry of
\* j2, and so on; each entry has the source "github-actions" and the level
\* of its own conclusion: ERROR for failure, WARNING for cancelled, INFO for
\* anything else, a missing conclusion included.
C14_OneEntryPerJobAndStep ==
    ( /\ gha_method = "get_workflow_logs"
      /\ gha_pc \in {"exhausted", "raised"}
      /\ gha_j >= 1 ) =>
        LET expected == JobsAndSteps(gha_server.jobs)
        IN  /\ Len(gha_yielded) = Len(expected)
            /\ \A k \in 1..Len(expected) :
                  /\ gha_yielded[k].source = "github-actions"
                  /\ StartsAt(gha_yielded[k].message,
                              expected[k].kind \o <<":"," ">> \o expected[k].item.name, 1)
                  /\ gha_yielded[k].level =
                        IF expected[k].item.conclusion = JsonStr(<<"f","a","i","l","u","r","e">>) THEN <<"E","R","R","O","R">>
                        ELSE IF expected[k].item.conclusion = JsonStr(<<"c","a","n","c","e","l","l","e","d">>)
                        THEN <<"W","A","R","N","I","N","G">> ELSE <<"I","N","F","O">>

\* the runs of the first k pages in page order, then in-page order
RECURSIVE RunsOfPages(_, _)
RunsOfPages(pages, k) ==
    IF k = 0 THEN <<>> ELSE RunsOfPages(pages, k - 1) \o pages[k].runs

\* a is b with some elements left out
RECURSIVE IsSubsequence(_, _)
IsSubsequence(a, b) ==
    IF a = <<>> THEN TRUE
    ELSE IF b = <<>> THEN FALSE
    ELSE IF Head(a) = Head(b) THEN IsSubsequence(Tail(a), Tail(b))
    ELSE IsSubsequence(a, Tail(b))

\* the ids of the runs yielded
YieldedIds == [k \in 1..Len(gha_yielded) |-> gha_yielded[k].id]

\* the generator of get_workflow_runs has run to its end
RunsExhausted == gha_method = "get_workflow_runs" /\ gha_pc = "exhausted"

\* C15: get_workflow_runs fetches its pages lazily: a page is requested only
\* while the consumer is waiting for a run it has asked for and not yet got,
\* so after the consumer stops iterating no request is sent; when the consumer
\* iterates to the end the pages were requested in link order up to the first
\* response without a "next" link, and the runs were yielded in page order,
\* then in-page order.
C15_RunsPagedLazily ==
    /\ [][gha_method = "get_workflow_runs" =>
            /\ Len(gha_requests') > Len(gha_requests) => gha_demand' > Len(gha_yielded')
            /\ gha_pc = "closed" => gha_requests' = gha_requests]_gha_vars
    /\ [](RunsExhausted =>
            LET k == Len(gha_requests)
                ids == [i \in 1..Len(RunsOfPages(gha_server.pages, k)) |->
                           RunsOfPages(gha_server.pages, k)[i].id]
            IN  /\ k >= 1 /\ k <= Len(gha_server.pages)
                /\ \A p \in 1..k : gha_requests[p] = runs_page_url(gha_repo, p)
                /\ \A p \in 1..(k - 1) : gha_server.pages[p].has_next
                /\ ~gha_server.pages[k].has_next
                /\ IsSubsequence(YieldedIds, ids)
                /\ gha_until = NoneOpt => YieldedIds = ids)

\* two pages were requested and their three runs yielded in order, the
\* second page only on the third demand
C15_Witness ==
    /\ RunsExhausted
    /\ Len(gha_requests) = 2
    /\ gha_server.pages[1].runs = <<RunLate, RunEarly>>
    /\ YieldedIds = <<2, 1, 1>>
    /\ gha_demand = 4

----------------------------------------------------------------------------
(* LocalGitAdapter.get_commits                                             *)

\* the message starts with the text p
StartsWith(s, p) == StartsAt(s, p, 1)

\* C16: when the path does not exist get_commits raises ValueError
\* "Repository not found", and when it exists without a .git entry it raises
\* ValueError "Not a valid git repository"; in both cases the call has
\* started no git subprocess and has yielded no commit.
C16_ValidatedBeforeAnyCommand ==
    (git_call > 0 /\ ~(git_repo.exists /\ git_repo.has_git)) =>
        /\ git_cmds = <<>>
        /\ git_yielded = <<>>
        /\ git_pc \in {"call", "raised"}
        /\ git_pc = "raised" =>
              /\ git_error # NoneOpt
              /\ git_error[1].type = "ValueError"
              /\ ~git_repo.exists =>
                    StartsWith(git_error[1].message, <<"R","e","p","o","s","i","t","o","r","y"," ","n","o","t"," ","f","o","u","n","d">>)
              /\ git_repo.exists =>
                    StartsWith(git_error[1].message, <<"N","o","t"," ","a"," ","v","a","l","i","d"," ","g","i","t"," ","r","e","p","o","s","i","t","o","r","y">>)

C16_Witness ==
    /\ git_pc = "raised"
    /\ git_repo.exists /\ ~git_repo.has_git
    /\ git_error = Some(ValueError(<<"N","o","t"," ","a"," ","v","a","l","i","d"," ","g","i","t"," ","r","e","p","o","s","i","t","o","r","y"," ","a","t"," ","/","s","r","v","/","a","p","p">>))
    /\ git_cmds = <<>>

\* C17: in a valid repository a non-zero exit of the log command raises an
\* error and no commit is yielded; a non-zero exit of the diff command of a
\* commit raises nothing: the commits of the log output are yielded in order,
\* each one whose diff command failed with diff = None, and the call ends
\* only after all of them.
C17_LogFailureRaisesDiffFailureDoesNot ==
    (git_call > 0 /\ git_repo.exists /\ git_repo.has_git) =>
        /\ git_repo.log_exit # 0 =>
              /\ git_yielded = <<>>
              /\ git_pc \in {"call", "raised"}
              /\ git_pc = "raised" =>
                    /\ git_error # NoneOpt
                    /\ git_error[1].type = "ValueError"
                    /\ StartsWith(git_error[1].message, <<"E","r","r","o","r"," ","e","x","e","c","u","t","i","n","g"," ","g","i","t"," ","c","o","m","m","a","n","d">>)
        /\ git_repo.log_exit = 0 =>
              /\ git_error = NoneOpt
              /\ git_pc # "raised"
              /\ Len(git_yielded) <= Len(git_repo.commits)
              /\ \A k \in 1..Len(git_yielded) :
                    /\ git_yielded[k].hash = git_repo.commits[k].hash
                    /\ git_repo.commits[k].show_exit # 0 => git_yielded[k].diff = NoneOpt
              /\ git_pc = "exhausted" => Len(git_yielded) = Len(git_repo.commits)

C17_Witness ==
    /\ git_pc = "exhausted"
    /\ git_repo.commits = <<CommitUnreadable, CommitFix>>
    /\ Len(git_yielded) = 2
    /\ git_yielded[1].diff = NoneOpt
    /\ git_yielded[2].diff = Some(CommitFix.patch)
    /\ Len(git_cmds) = 3

\* C18: two calls of get_commits with the same arguments against the same
\* repository yield the same sequence of commits (hash, author, date, message
\* and diff at every position) and end the same way, whatever the value of
\* the clock during each call.
C18_TwoCallsYieldTheSame ==
    (git_call = 2 /\ git_pc \in {"raised", "exhausted"}) =>
        /\ git_yielded = git_first[1].yielded
        /\ git_error = git_first[1].error

----------------------------------------------------------------------------
(* The tools                                                               *)

\* the call fails: the repository path is missing or holds no .git, git is
\* not found or the log command exits with a non-zero status, the log file
\* is missing or cannot be opened
ToolFailure ==
    \/ /\ tool_name = "git_search"
       /\ \/ ~tool_repo.exists
          \/ ~tool_repo.has_git
          \/ ~tool_repo.git_installed
          \/ tool_repo.log_exit # 0
          \/ tool_max_commits < 0
    \/ /\ tool_name = "log_parser"
       /\ (~tool_file.exists \/ ~tool_file.readable)

\* the call of a tool has ended
ToolEnded == tool_pc \in {"returned", "raised"}

\* C19 as stated: on every failure the tool raises nothing and returns a
\* text that begins with "Error:".
C19_FailuresReturnErrorColon ==
    (ToolFailure /\ ToolEnded) =>
        /\ tool_pc = "returned"
        /\ tool_error = NoneOpt
        /\ tool_result # NoneOpt
        /\ StartsWith(tool_result[1], <<"E","r","r","o","r",":">>)

\* C19, amended: no call of a tool ends with an exception, and on every
\* failure the text returned begins with "Error": with "Error: " for a
\* missing repository path, a path without .git and a missing log file, with
\* "Error executing git command: " for a git command that fails, and with
\* "Error searching git commits: " or "Error parsing logs: " for any other
\* exception.
C19_FailuresReturnErrorText ==
    /\ tool_pc # "raised"
    /\ tool_error = NoneOpt
    /\ (ToolFailure /\ ToolEnded) =>
          /\ tool_result # NoneOpt
          /\ StartsWith(tool_result[1], <<"E","r","r","o","r">>)
          /\ tool_name = "git_search" =>
                StartsWith(tool_result[1],
                    IF ~tool_repo.exists \/ ~tool_repo.has_git THEN <<"E","r","r","o","r",":"," ">>
                    ELSE IF ~tool_repo.git_installed THEN <<"E","r","r","o","r"," ","s","e","a","r","c","h","i","n","g"," ","g","i","t"," ","c","o","m","m","i","t","s",":"," ">>
                    ELSE <<"E","r","r","o","r"," ","e","x","e","c","u","t","i","n","g"," ","g","i","t"," ","c","o","m","m","a","n","d",":"," ">>)
          /\ tool_name = "log_parser" =>
                StartsWith(tool_result[1],
                    IF ~tool_file.exists THEN <<"E","r","r","o","r",":"," ">> ELSE <<"E","r","r","o","r"," ","p","a","r","s","i","n","g"," ","l","o","g","s",":"," ">>)

C19_Witness ==
    /\ tool_name = "git_search"
    /\ tool_pc = "returned"
    /\ tool_repo.exists /\ tool_repo.has_git /\ tool_repo.git_installed
    /\ tool_repo.log_exit # 0
    /\ tool_result = Some(<<"E","r","r","o","r"," ","e","x","e","c","u","t","i","n","g"," ","g","i","t"," ","c","o","m","m","a","n","d",":"," ","f","a","t","a","l",":"," ","b","a","d"," ","o","b","j","e","c","t"," ","H","E","A","D","\n">>)
    /\ Len(tool_cmds) = 1

\* the lines of the text that open a numbered commit block: "<idx>. Commit "
CommitBlockLines(text) ==
    {i \in 1..Len(split_lines(text)) :
        LET l == split_lines(text)[i]
            e == SpanEnd(l, 1, DigitSet)
        IN  e > 1 /\ StartsAt(l, <<"."," ","C","o","m","m","i","t"," ">>, e)}

\* the numbers N of the lines "Total commits found: N" of the text
ReportedTotals(text) ==
    {Number(l, 22, SpanEnd(l, 22, DigitSet) - 22) :
        l \in {split_lines(text)[i] :
                  i \in {j \in 1..Len(split_lines(text)) :
                            StartsWith(split_lines(text)[j], <<"T","o","t","a","l"," ","c","o","m","m","i","t","s"," ","f","o","u","n","d",":"," ">>)}}}

\* C20: a text returned by GitSearchTool._run with max_commits = m reports at
\* most m commits: every N of a line "Total commits found: N" is at most m
\* and there are at most m numbered commit blocks.
C20_NeverMoreThanMaxCommits ==
    (tool_name = "git_search" /\ tool_pc = "returned") =>
        /\ \A n \in ReportedTotals(tool_result[1]) : n <= tool_max_commits
        /\ ReportedTotals(tool_result[1]) = {} => CommitBlockLines(tool_result[1]) = {}
        /\ ReportedTotals(tool_result[1]) # {} =>
              Cardinality(CommitBlockLines(tool_result[1])) <= tool_max_commits

C20_Witness ==
    /\ tool_name = "git_search"
    /\ tool_pc = "returned"
    /\ tool_max_commits = 2
    /\ Len(tool_repo.commits) = 3
    /\ tool_repo.log_exit = 0
    /\ ReportedTotals(tool_result[1]) = {2}
    /\ Cardinality(CommitBlockLines(tool_result[1])) = 2
    /\ Len(tool_cmds) = 3

\* the lines of the k-th numbered commit block of the text, from its line
\* "<idx>. Commit " to the line before the empty line that opens the next
\* block, or to the last line of the text
BlockOf(text, k) ==
    LET ls == split_lines(text)
        starts == CommitBlockLines(text)
        first == CHOOSE i \in starts : Cardinality({j \in starts : j < i}) = k - 1
        later == {j \in starts : j > first}
        last == IF later = {} THEN Len(ls)
                ELSE (CHOOSE j \in later : \A x \in later : j <= x) - 2
    IN  SubSeq(ls, first, last)

\* C21: in a text returned by GitSearchTool._format_commit_output the block
\* of every commit with n changed files has the header "Files Changed (n)",
\* then exactly the first min(n, MAX_FILES_TO_DISPLAY) files in their order,
\* then the line "... and (n - MAX_FILES_TO_DISPLAY) more" exactly when
\* n > MAX_FILES_TO_DISPLAY, and nothing else.
C21_FilesListedUpToTheLimit ==
    (tool_name = "git_search" /\ tool_pc = "returned" /\ tool_commits # <<>>) =>
        /\ Cardinality(CommitBlockLines(tool_result[1])) = Len(tool_commits)
        /\ \A k \in 1..Len(tool_commits) :
              LET fs == tool_commits[k].files_changed
                  n == Len(fs)
                  shown == IF n < MAX_FILES_TO_DISPLAY THEN n ELSE MAX_FILES_TO_DISPLAY
                  b == BlockOf(tool_result[1], k)
              IN  /\ Len(b) = 6 + shown + (IF n > MAX_FILES_TO_DISPLAY THEN 1 ELSE 0)
                  /\ b[6] = <<" "," "," ","F","i","l","e","s"," ","C","h","a","n","g","e","d"," ","(">> \o str_int(n) \o <<")",":">>
                  /\ \A i \in 1..shown : b[6 + i] = <<" "," "," "," "," ","-"," ">> \o fs[i]
                  /\ n > MAX_FILES_TO_DISPLAY =>
                        b[Len(b)] = <<" "," "," "," "," ",".",".","."," ","a","n","d"," ">> \o str_int(n - MAX_FILES_TO_DISPLAY) \o <<" ","m","o","r","e">>
                  /\ \A i \in 1..Len(b) :
                        StartsWith(b[i], <<" "," "," "," "," ",".",".","."," ","a","n","d"," ">>) =>
                            (n > MAX_FILES_TO_DISPLAY /\ i = Len(b))

\* a text returned for three commits with 7, 5 and 0 changed files: the
\* first block lists five files and "... and 2 more", the second lists five
\* files and no such line, the third lists none
C21_Witness ==
    /\ tool_name = "git_search"
    /\ tool_pc = "returned"
    /\ Len(tool_commits) = 3
    /\ Len(tool_commits[1].files_changed) = 7
    /\ Len(tool_commits[2].files_changed) = 5
    /\ Len(tool_commits[3].files_changed) = 0
    /\ Len(BlockOf(tool_result[1], 1)) = 12
    /\ BlockOf(tool_result[1], 1)[11] = <<" "," "," "," "," ","-"," ","t","4",".","p","y">>
    /\ BlockOf(tool_result[1], 1)[12] = <<" "," "," "," "," ",".",".","."," ","a","n","d"," ","2"," ","m","o","r","e">>
    /\ Len(BlockOf(tool_result[1], 2)) = 11
    /\ BlockOf(tool_result[1], 2)[6] = <<" "," "," ","F","i","l","e","s"," ","C","h","a","n","g","e","d"," ","(","5",")",":">>
    /\ BlockOf(tool_result[1], 3) =
          << <<"3","."," ","C","o","m","m","i","t"," ","d","4","c","6","b","8","a","0">>, <<" "," "," ","A","u","t","h","o","r",":"," ","E","v","e">>,
             <<" "," "," ","D","a","t","e",":"," ","2","0","2","4","-","0","1","-","1","2"," ","0","7",":","0","0",":","0","0"," ","+","0","0","0","0">>, <<" "," "," ","M","e","s","s","a","g","e",":"," ","h","o","t","f","i","x",":"," ","u","r","g","e","n","t">>,
             <<" "," "," ","R","i","s","k"," ","L","e","v","e","l",":"," ","H","I","G","H">>, <<" "," "," ","F","i","l","e","s"," ","C","h","a","n","g","e","d"," ","(","0",")",":">> >>

\* the text has a line that is exactly l
HasLine(text, l) == \E i \in 1..Len(split_lines(text)) : split_lines(text)[i] = l

\* the lines of the text that hold "Risk Level: "
RiskLevelLines(text) ==
    {i \in 1..Len(split_lines(text)) : Contains(split_lines(text)[i], <<"R","i","s","k"," ","L","e","v","e","l",":"," ">>)}

\* the call ended with a text that is not an error text
ToolSucceeded ==
    /\ tool_pc = "returned"
    /\ tool_result # NoneOpt
    /\ ~StartsWith(tool_result[1], <<"E","r","r","o","r">>)

\* what C22 says of a text of GitSearchTool._run for the commits retrieved
CommitsReported(text, commits) ==
    /\ HasLine(text, <<"T","o","t","a","l"," ","c","o","m","m","i","t","s"," ","f","o","u","n","d",":"," ">> \o str_int(Len(commits)))
    /\ ReportedTotals(text) = {Len(commits)}
    /\ Cardinality(RiskLevelLines(text)) = Len(commits)
    /\ \A k \in 1..Len(commits) :
          /\ commits[k].risk_level \in {RISK_LEVEL_HIGH, RISK_LEVEL_MEDIUM, RISK_LEVEL_LOW}
          /\ BlockOf(text, k)[5] = <<" "," "," ","R","i","s","k"," ","L","e","v","e","l",":"," ">> \o RiskText[commits[k].risk_level]

\* what C22 says of a text of LogParserTool._run
ErrorsReported ==
    /\ ex_result # NoneOpt
    /\ HasLine(tool_result[1], <<"T","o","t","a","l"," ","E","r","r","o","r","s"," ","F","o","u","n","d",":"," ">> \o str_int(ex_result[1].total_errors))

\* C22 as stated: every text returned by GitSearchTool._run that is not an
\* error text has the line "Total commits found: N", N the number of commits
\* retrieved, N = 0 included, and one line "Risk Level: X" per commit, X one
\* of HIGH, MEDIUM, LOW; every text returned by LogParserTool._run that is
\* not an error text has the line "Total Errors Found: N", N = total_errors.
C22_TotalsAlwaysReported ==
    ToolSucceeded =>
        /\ tool_name = "git_search" => CommitsReported(tool_result[1], tool_commits)
        /\ tool_name = "log_parser" => ErrorsReported

\* C22, amended: when git prints at least one commit the text has the line
\* "Total commits found: N", N >= 1 the number of commits retrieved, and one
\* line "Risk Level: X" per commit, X one of HIGH, MEDIUM, LOW; when git
\* prints no commit the text is "No commits found before <timestamp>" and
\* has neither line; every text returned by LogParserTool._run that is not
\* an error text has the line "Total Errors Found: N", N = total_errors.
C22_TotalsReportedForCommitsFound ==
    ToolSucceeded =>
        /\ (tool_name = "git_search" /\ tool_commits # <<>>) =>
                CommitsReported(tool_result[1], tool_commits)
        /\ (tool_name = "git_search" /\ tool_commits = <<>>) =>
                /\ tool_result[1] = <<"N","o"," ","c","o","m","m","i","t","s"," ","f","o","u","n","d"," ","b","e","f","o","r","e"," ">> \o tool_timestamp
                /\ ReportedTotals(tool_result[1]) = {}
                /\ RiskLevelLines(tool_result[1]) = {}
        /\ tool_name = "log_parser" => ErrorsReported

\* three commits retrieved, one of each risk level, and a text with the
\* total 3 and three risk lines
C22_Witness ==
    /\ tool_name = "git_search"
    /\ ToolSucceeded
    /\ Len(tool_commits) = 3
    /\ {tool_commits[k].risk_level : k \in 1..3} =
          {RISK_LEVEL_HIGH, RISK_LEVEL_MEDIUM, RISK_LEVEL_LOW}
    /\ HasLine(tool_result[1], <<"T","o","t","a","l"," ","c","o","m","m","i","t","s"," ","f","o","u","n","d",":"," ","3">>)
    /\ Cardinality(RiskLevelLines(tool_result[1])) = 3
----------------------------------------------------------------------------
(* The investigation registry                                              *)

\* the ids trigger_investigation has returned so far
Returned_ids == {u \in Uuids : api_response[u] # NoneOpt}

\* the moves of a status: none, pending to running, running to completed or
\* failed
StatusMoves ==
    {<<s, s>> : s \in {STATUS_PENDING, STATUS_RUNNING, STATUS_COMPLETED, STATUS_FAILED}}
    \cup {<<STATUS_PENDING, STATUS_RUNNING>>, <<STATUS_RUNNING, STATUS_COMPLETED>>,
          <<STATUS_RUNNING, STATUS_FAILED>>}

\* C23: the status of a tracked investigation is pending when
\* trigger_investigation returns (in the registry and in the response), the
\* start of the background task moves it to running, and every step moves
\* it along pending -> running -> completed | failed or leaves it: never
\* back, and never away from completed or failed.
C23_StatusMovesForward ==
    [][\A u \in DOMAIN investigations' :
          IF u \notin DOMAIN investigations
          THEN /\ investigations'[u].status = STATUS_PENDING
               /\ api_response'[u] # NoneOpt
               /\ api_response'[u][1].status = STATUS_PENDING
          ELSE /\ <<investigations[u].status, investigations'[u].status>> \in StatusMoves
               /\ (api_pc[u] = "queued" /\ api_pc'[u] # "queued") =>
                      /\ investigations[u].status = STATUS_PENDING
                      /\ investigations'[u].status = STATUS_RUNNING]_api_vars

\* an investigation went from pending to running to failed: its run raised,
\* the update is over and the status is failed
C23_Witness ==
    \E u \in DOMAIN investigations :
        /\ api_pc[u] = "done"
        /\ api_crew[u] \in {Some(e) : e \in CrewKickoffErrors}
        /\ investigations[u].status = STATUS_FAILED
        /\ investigations[u].completed_at # NoneOpt

\* C24: once the crew call of an investigation has ended, the background
\* task comes to its end with the final status: completed when the run
\* returned, failed when the construction or the run raised.
C24_EndsCompletedOrFailed ==
    \A u \in Uuids :
        (api_crew[u] # NoneOpt) ~>
            /\ api_pc[u] = "done"
            /\ u \in DOMAIN investigations
            /\ investigations[u].status =
                  (IF api_crew[u][1].raised = "" THEN STATUS_COMPLETED ELSE STATUS_FAILED)

\* the construction of the crew raised and the investigation ended failed
C24_Witness ==
    \E u \in DOMAIN investigations :
        /\ api_pc[u] = "done"
        /\ api_crew[u] \in {Some(e) : e \in CrewConstructionErrors}
        /\ investigations[u].status = STATUS_FAILED
        /\ investigations[u].error = Some(<<"A","z","u","r","e"," ","d","e","p","l","o","y","m","e","n","t"," ","i","s"," ","n","o","t"," ","c","o","n","f","i","g","u","r","e","d">>)

\* the status, result and error an investigation ends with when it runs alone
AloneOutcome(outcome) ==
    IF outcome.raised = ""
    THEN <<STATUS_COMPLETED, Some(outcome.text), NoneOpt>>
    ELSE <<STATUS_FAILED, NoneOpt, Some(outcome.message)>>

\* C25: a step that is not a step of an investigation (its trigger or a
\* statement of its background task) leaves the entry of that investigation
\* as it is, and an investigation whose task is over has the status, result
\* and error its own crew outcome gives, whatever the other investigations
\* did in between.
C25_InvestigationsDoNotInterfere ==
    [][/\ \A u \in DOMAIN investigations :
             api_pc'[u] = api_pc[u] =>
                 /\ u \in DOMAIN investigations'
                 /\ investigations'[u] = investigations[u]
       /\ \A u \in DOMAIN investigations' :
             api_pc'[u] = "done" =>
                 <<investigations'[u].status, investigations'[u].result,
                   investigations'[u].error>> = AloneOutcome(api_crew'[u][1])]_api_vars

\* two investigations side by side: one is over and completed while the
\* crew of the other is running
C25_Witness ==
    \E u, v \in DOMAIN investigations :
        /\ u # v
        /\ api_pc[u] = "done"
        /\ investigations[u].status = STATUS_COMPLETED
        /\ investigations[u].result = Some(<<"#"," ","P","o","s","t","-","M","o","r","t","e","m">>)
        /\ api_pc[v] = "kickoff"
        /\ investigations[v].status = STATUS_RUNNING
        /\ investigations[v].result = NoneOpt

\* service_name, alert_type, timestamp and started_at of an entry
TriggerFields(entry) ==
    <<entry.service_name, entry.alert_type, entry.timestamp, entry.started_at>>

\* the four fields stay as they are in every step, and every answer to a
\* status query carries the four fields of the entry
TriggerFieldsKept ==
    /\ \A u \in DOMAIN investigations :
          /\ u \in DOMAIN investigations'
          /\ TriggerFields(investigations'[u]) = TriggerFields(investigations[u])
    /\ \A u \in DOMAIN investigations' :
          /\ investigations'[u].service_name = api_request'[u][1].service_name
          /\ investigations'[u].alert_type = api_request'[u][1].alert_type
          /\ investigations'[u].started_at = api_response'[u][1].started_at
    /\ (api_reply' # NoneOpt /\ api_reply'[1].body # NoneOpt) =>
          TriggerFields(api_reply'[1].body[1]) =
              TriggerFields(investigations'[api_reply'[1].investigation_id])

\* C26 as stated: the four fields recorded at trigger time are never changed
\* and every status query returns the values given in the triggering
\* request: the service_name and the alert_type of the request, the
\* timestamp of the request when it gives one, the started_at of the
\* response.
C26_RequestValuesReturned ==
    [][/\ TriggerFieldsKept
       /\ \A u \in DOMAIN investigations' :
             api_request'[u][1].timestamp # NoneOpt =>
                 investigations'[u].timestamp = api_request'[u][1].timestamp[1]]_api_vars

\* C26, amended: the four fields recorded at trigger time are never changed
\* and every status query returns them; service_name and alert_type are
\* those of the request, started_at is that of the response, and timestamp
\* is the timestamp of the request when it gives a non-empty one and the
\* time of the trigger when it gives none or an empty one.
C26_TriggerValuesReturned ==
    [][/\ TriggerFieldsKept
       /\ \A u \in DOMAIN investigations' :
             LET given == api_request'[u][1].timestamp
             IN  IF given # NoneOpt /\ given[1] # <<>>
                 THEN investigations'[u].timestamp = given[1]
                 ELSE investigations'[u].timestamp \in {isoformat(t) : t \in NowValues}]_api_vars

\* a status query answered after the update of a completed investigation,
\* with the timestamp of the request and a completed_at that differs from
\* started_at
C26_Witness ==
    /\ api_reply # NoneOpt
    /\ api_reply[1].body # NoneOpt
    /\ api_reply[1].body[1].status = STATUS_COMPLETED
    /\ api_reply[1].body[1].service_name = <<"p","a","y","m","e","n","t","-","p","r","o","c","e","s","s","o","r">>
    /\ api_reply[1].body[1].alert_type = <<"t","i","m","e","o","u","t","_","e","r","r","o","r">>
    /\ api_reply[1].body[1].timestamp = <<"2","0","2","6","-","0","1","-","2","5","T","1","0",":","3","0",":","0","0",".","0","0","0">>
    /\ api_reply[1].body[1].completed_at # NoneOpt
    /\ api_reply[1].body[1].completed_at[1] # api_reply[1].body[1].started_at

\* C27: get_investigation answers 404 "Investigation not found" for an id
\* that trigger_investigation has not returned and 200 with the tracked
\* entry for an id it has returned, and no step removes an entry.
C27_KnownIdsAnsweredUnknownIds404 ==
    [][/\ DOMAIN investigations \subseteq DOMAIN investigations'
       /\ Returned_ids' = DOMAIN investigations'
       /\ api_reply' # NoneOpt =>
             LET reply == api_reply'[1]
             IN  IF reply.investigation_id \in Returned_ids'
                 THEN /\ reply.status_code = HTTP_STATUS_OK
                      /\ reply.body = Some(investigations'[reply.investigation_id])
                 ELSE /\ reply.status_code = HTTP_STATUS_NOT_FOUND
                      /\ reply.detail = Some(<<"I","n","v","e","s","t","i","g","a","t","i","o","n"," ","n","o","t"," ","f","o","u","n","d">>)
                      /\ reply.body = NoneOpt]_api_vars

\* with two investigations tracked, one of them still pending, a query for
\* the pending one is answered with its entry
C27_Witness ==
    /\ Cardinality(DOMAIN investigations) = 2
    /\ api_reply # NoneOpt
    /\ api_reply[1].status_code = HTTP_STATUS_OK
    /\ api_reply[1].body # NoneOpt
    /\ api_reply[1].body[1].status = STATUS_PENDING
    /\ \E u \in DOMAIN investigations : investigations[u].status = STATUS_FAILED

\* C29: completed entries have a result, no error and a completed_at; failed
\* entries have an error, no result and a completed_at; pending and running
\* entries have no result, no error and no completed_at.
C29_EntryMatchesItsStatus ==
    \A u \in DOMAIN investigations :
        LET entry == investigations[u]
        IN  /\ entry.status = STATUS_COMPLETED =>
                  (entry.result # NoneOpt /\ entry.error = NoneOpt
                   /\ entry.completed_at # NoneOpt)
            /\ entry.status = STATUS_FAILED =>
                  (entry.error # NoneOpt /\ entry.result = NoneOpt
                   /\ entry.completed_at # NoneOpt)
            /\ entry.status \in {STATUS_PENDING, STATUS_RUNNING} =>
                  (entry.result = NoneOpt /\ entry.error = NoneOpt
                   /\ entry.completed_at = NoneOpt)
----------------------------------------------------------------------------
(* The reports                                                             *)

\* the files of the reports directory whose name begins with
\* postmortem_<investigation_id>
ReportFilesOf(investigation_id) ==
    {p \in DOMAIN report_files :
        StartsWith(p, REPORTS_DIRECTORY \o <<"/">> \o REPORT_FILENAME_PREFIX \o <<"_">>
                      \o investigation_id)}

\* C28: after two reports with the same investigation id were saved at
\* different times, two files of that investigation exist: the second save
\* did not overwrite the first.
C28_TwoSavesTwoFiles ==
    \A i, j \in DOMAIN report_saves :
        (/\ i # j
         /\ report_saves[i].investigation_id = report_saves[j].investigation_id
         /\ report_saves[i].at # report_saves[j].at) =>
            Cardinality(ReportFilesOf(report_saves[i].investigation_id)) >= 2

\* C30: while _run generates and stores the embedding the file is on disk
\* with the header and the content of this call; _run returns "Report
\* successfully saved to: <path>" only with the file written and the point
\* of this call stored; when the embedding or the store fails it returns an
\* "Error generating report" text, the file is still on disk and no point
\* of this call is stored.
C30_FileWrittenBeforeEmbedding ==
    report_args # NoneOpt =>
        LET args == report_args[1]
            path == report_path_of(args.investigation_id)
            on_disk == /\ path \in DOMAIN report_files
                       /\ report_files[path] = report_full
                       /\ StartsWith(report_full, REPORT_METADATA_SEPARATOR)
                       /\ SubSeq(report_full, Len(report_full) - Len(args.content) + 1,
                                 Len(report_full)) = args.content
            stored == /\ args.investigation_id \in DOMAIN report_points
                      /\ report_embedding # NoneOpt
                      /\ report_points[args.investigation_id] =
                            report_point(args, path, report_embedding[1])
        IN  /\ report_pc \in {"embed", "store"} => on_disk
            /\ report_pc = "write" => report_embedding = NoneOpt
            /\ (report_result # NoneOpt
                /\ StartsWith(report_result[1], <<"R","e","p","o","r","t"," ","s","u","c","c","e","s","s","f","u","l","l","y"," ","s","a","v","e","d"," ","t","o",":"," ">>)) =>
                  /\ report_result[1] = <<"R","e","p","o","r","t"," ","s","u","c","c","e","s","s","f","u","l","l","y"," ","s","a","v","e","d"," ","t","o",":"," ">> \o path
                  /\ on_disk
                  /\ stored
            /\ (report_pc = "returned" /\ report_raised \in {"embed", "store"}) =>
                  /\ report_result # NoneOpt
                  /\ StartsWith(report_result[1], <<"E","r","r","o","r"," ","g","e","n","e","r","a","t","i","n","g"," ","r","e","p","o","r","t">>)
                  /\ on_disk
            /\ (report_pc = "returned" /\ report_raised = "none") =>
                  (report_result # NoneOpt
                   /\ StartsWith(report_result[1], <<"R","e","p","o","r","t"," ","s","u","c","c","e","s","s","f","u","l","l","y"," ","s","a","v","e","d"," ","t","o",":"," ">>))

\* the embedding service failed after the file was written: the error text
\* is returned and the file is on disk
C30_Witness ==
    /\ report_pc = "returned"
    /\ report_raised = "embed"
    /\ report_result = Some(<<"E","r","r","o","r"," ","g","e","n","e","r","a","t","i","n","g"," ","r","e","p","o","r","t",":"," ","C","o","n","n","e","c","t","i","o","n"," ","e","r","r","o","r",".">>)
    /\ report_args # NoneOpt
    /\ report_path_of(report_args[1].investigation_id) \in DOMAIN report_files
    /\ report_files[report_path_of(report_args[1].investigation_id)] = report_full
    /\ report_points = <<>>

----------------------------------------------------------------------------
(* Specifications                                                          *)

vars ==
    <<risk_vars, extract_vars, categorize_vars, local_vars, factory_vars,
      gha_vars, git_vars, tool_vars, report_vars, api_vars>>

\* calls of GitSearchTool._assess_risk
InitRisk ==
    /\ RiskInit
    /\ ExtractIdle
    /\ CategorizeIdle
    /\ LocalIdle
    /\ FactoryIdle
    /\ GhaIdle
    /\ GitIdle
    /\ ToolIdle
    /\ ReportIdle
    /\ ApiIdle
SpecRisk == InitRisk /\ [][RiskNext]_vars

\* calls of extract_errors_from_logs
InitExtract ==
    /\ ExtractInit
    /\ RiskIdle
    /\ CategorizeIdle
    /\ LocalIdle
    /\ FactoryIdle
    /\ GhaIdle
    /\ GitIdle
    /\ ToolIdle
    /\ ReportIdle
    /\ ApiIdle
SpecExtract == InitExtract /\ [][ExtractNext]_vars

\* calls of categorize_error
InitCategorize ==
    /\ CategorizeInit
    /\ RiskIdle
    /\ ExtractIdle
    /\ LocalIdle
    /\ FactoryIdle
    /\ GhaIdle
    /\ GitIdle
    /\ ToolIdle
    /\ ReportIdle
    /\ ApiIdle
SpecCategorize == InitCategorize /\ [][CategorizeNext]_vars

\* calls of LocalLogAdapter.get_logs
InitLocal ==
    /\ LocalInit
    /\ RiskIdle
    /\ ExtractIdle
    /\ CategorizeIdle
    /\ FactoryIdle
    /\ GhaIdle
    /\ GitIdle
    /\ ToolIdle
    /\ ReportIdle
    /\ ApiIdle
SpecLocal == InitLocal /\ [][LocalNext]_vars

\* calls of SourceFactory.create_log_source and create_git_source
InitFactory ==
    /\ FactoryInit
    /\ RiskIdle
    /\ ExtractIdle
    /\ CategorizeIdle
    /\ LocalIdle
    /\ GhaIdle
    /\ GitIdle
    /\ ToolIdle
    /\ ReportIdle
    /\ ApiIdle
SpecFactory == InitFactory /\ [][FactoryNext]_vars

\* calls of GitHubActionsAdapter.get_workflow_run, get_workflow_logs and get_workflow_runs
InitGha ==
    /\ GhaInit
    /\ RiskIdle
    /\ ExtractIdle
    /\ CategorizeIdle
    /\ LocalIdle
    /\ FactoryIdle
    /\ GitIdle
    /\ ToolIdle
    /\ ReportIdle
    /\ ApiIdle
SpecGha == InitGha /\ [][GhaNext]_vars

\* two calls of LocalGitAdapter.get_commits against one repository
InitGit ==
    /\ GitInit
    /\ RiskIdle
    /\ ExtractIdle
    /\ CategorizeIdle
    /\ LocalIdle
    /\ FactoryIdle
    /\ GhaIdle
    /\ ToolIdle
    /\ ReportIdle
    /\ ApiIdle
SpecGit == InitGit /\ [][GitNext]_vars

\* calls of GitSearchTool._run and of LogParserTool._run, which runs extract_errors_from_logs
InitTool ==
    /\ ToolInit
    /\ RiskIdle
    /\ ExtractIdle
    /\ CategorizeIdle
    /\ LocalIdle
    /\ FactoryIdle
    /\ GhaIdle
    /\ GitIdle
    /\ ReportIdle
    /\ ApiIdle
SpecTool == InitTool /\ [][ToolNext]_vars

\* calls of ReportGeneratorTool._run, one after the other
InitReport ==
    /\ ReportInit
    /\ RiskIdle
    /\ ExtractIdle
    /\ CategorizeIdle
    /\ LocalIdle
    /\ FactoryIdle
    /\ GhaIdle
    /\ GitIdle
    /\ ToolIdle
    /\ ApiIdle
SpecReport == InitReport /\ [][ReportNext]_vars

\* calls of trigger_investigation and get_investigation and the background tasks run_investigation
InitApi ==
    /\ ApiInit
    /\ RiskIdle
    /\ ExtractIdle
    /\ CategorizeIdle
    /\ LocalIdle
    /\ FactoryIdle
    /\ GhaIdle
    /\ GitIdle
    /\ ToolIdle
    /\ ReportIdle
SpecApi == InitApi /\ [][ApiNext]_vars
\* the investigations and their background tasks, each run by a worker thread
\* that goes on running: once the crew of an investigation has ended, the
\* statements that follow it are executed
SpecApiFair ==
    /\ InitApi
    /\ [][ApiTaskNext]_vars
    /\ \A id \in Uuids : WF_vars(UpdateSteps(id))
====
